---- MODULE Spec2Model ----
(***************************************************************************)
(* Model of the geospatial ETL utility: the API fetcher                    *)
(* (api_downloader.py), the query-engine sessions (data_extractor.py,      *)
(* api_downloader.py, bbox_calculator.py), the exporter                    *)
(* (data_extractor.py), the Box uploader (box_uploader.py), the extraction *)
(* job (main.py, config.py) and the bbox utility (bbox_calculator.py).     *)
(***************************************************************************)
EXTENDS Integers, Sequences, FiniteSets, TLC

(***************************************************************************)
(* Bounds                                                                  *)
(***************************************************************************)
\* longest script of responses the remote service hands back in one fetch
MaxPages == 2
\* most features one response carries
MaxPageSize == 2

(***************************************************************************)
(* State                                                                   *)
(***************************************************************************)
\* API fetcher (api_downloader.py)
VARIABLES
    fpc,            \* position of the fetch: "idle", the variant's loop, "done", "raised"
    api_config,     \* the caller's api_config dictionary
    bbox,           \* the caller's bounding box, None when not given
    script,         \* what the service answers to the 1st, 2nd, ... request
    params,         \* local `params` of the running variant
    offset,         \* local `offset` of _download_arcgis_rest
    limit,          \* local `limit` of _download_arcgis_rest
    next_url,       \* local `next_url` of _download_ogc_api
    all_features,   \* local `all_features`
    requests,       \* the http_get calls issued so far: [url, params]
    fresult         \* features of the returned GeoDataFrame

fetchVars == <<fpc, api_config, bbox, script, params, offset, limit, next_url,
               all_features, requests, fresult>>

\* query-engine sessions (data_extractor.py, api_downloader.py, bbox_calculator.py)
VARIABLES
    sessions,       \* every session duckdb.connect has opened: [owner, open, scope]
    extFail,        \* the extensions whose INSTALL/LOAD fails in this environment
    zipSource,      \* 'zip://' in self.config.data_source.url
    xpc,            \* the `with DuckDBSpatialExtractor(config)` statement
    xconn,          \* the extractor's self.connection: 0 for None, else a session
    dpc,            \* the `with APIDownloader()` statement
    dconn,          \* the downloader's self.connection
    bpc             \* the last calculate_with_duckdb call

sessionVars == <<sessions, extFail, zipSource, xpc, xconn, dpc, dconn, bpc>>

\* exporter (data_extractor.py)
VARIABLES
    epc,            \* the exporter: "idle", "direct", or export_multiple's "loop", "done"
    formats,        \* the `formats` argument of export_multiple
    fidx,           \* index of the format the loop handles next
    results,        \* the `results` dictionary of export_multiple
    attempts,       \* the export() calls made by the batch: [format, path, ok]
    disk,           \* the output directory: the paths that exist and what each holds
    ecall           \* the last export() call: its arguments, writes and outcome

exportVars == <<epc, formats, fidx, results, attempts, disk, ecall>>

\* uploader (box_uploader.py)
VARIABLES
    upc,            \* the `with BoxUploader(config)` statement and upload_multiple's loop
    client,         \* self.client is set
    template_key,   \* self.config.metadata_template_key is set
    box,            \* the remote storage: folder id -> the items it holds
    nextId,         \* the id the remote gives the next new file
    local,          \* the local paths that exist: path -> "file" or "dir"
    tmpfiles,       \* the temporary directories and archives that exist
    file_paths,     \* the mapping handed to upload_multiple, in its order
    uidx,           \* index of the entry the loop handles next
    uresults,       \* the `results` dictionary of upload_multiple
    ulog,           \* the upload_file calls of the running batch
    ucall           \* the last upload_file call

uploadVars == <<upc, client, template_key, box, nextId, local, tmpfiles, file_paths,
                uidx, uresults, ulog, ucall>>

\* extraction job (main.py, config.py)
VARIABLES
    jpc,            \* position of main: "start", "configured", "session", "extracted",
                    \* "exported", "uploaded", "exit"
    args,           \* the parsed command line
    config_data,    \* the JSON configuration file --config names
    jconfig,        \* `config` of main: the ExtractionConfig, NoConfig before there is one
    query,          \* what the bounded spatial read gave: rows or an error
    gdf,            \* what extract_to_geodataframe handed to main
    export_results, \* what export_multiple returned
    box_env,        \* the Box variables of os.environ as BoxConfig.from_env read them
    uploader,       \* a BoxUploader (a remote-storage client) was created
    upload_results, \* what upload_multiple returned
    upload_folder_id, \* main's upload_folder_id
    uploaded_to,    \* per uploaded format, the folder its file was sent to
    caught,         \* the exception caught at the top of main, NoError when none
    jlog,           \* the messages main itself has logged
    exit_status     \* the status the process ended with, Running before

jobVars == <<jpc, args, config_data, jconfig, query, gdf, export_results, box_env,
             uploader, upload_results, upload_folder_id, uploaded_to, caught, jlog,
             exit_status>>

\* bbox command-line utility (bbox_calculator.py)
VARIABLES
    bbox_pc,        \* position of the utility's main: "start", "computed", "printed", "exit"
    bbox_args,      \* the parsed command line and the input file it names
    bbox_caught,    \* the exception caught by main's except clause, NoError when none
    bbox_saved,     \* the --save-to file was written
    bbox_exit       \* the status the process ended with, Running before

cliVars == <<bbox_pc, bbox_args, bbox_caught, bbox_saved, bbox_exit>>

\* library calls (config.py, bbox_calculator.py)
VARIABLES
    lib_config,     \* the ExtractionConfig get_output_filename is called on
    filename,       \* the last call of get_output_filename: format, timestamp, name
    bboxes,         \* the list of boxes the caller holds
    buffer_degrees, \* the offset of the last expand_bbox
    calc            \* the last box operation: op, raised, error, ret

libVars == <<lib_config, filename, bboxes, buffer_degrees, calc>>

vars == <<fetchVars, sessionVars, exportVars, uploadVars, jobVars, cliVars, libVars>>

notFetch == <<sessionVars, exportVars, uploadVars, jobVars, cliVars, libVars>>
notSession == <<fetchVars, exportVars, uploadVars, jobVars, cliVars, libVars>>
notExport == <<fetchVars, sessionVars, uploadVars, jobVars, cliVars, libVars>>
notUpload == <<fetchVars, sessionVars, exportVars, jobVars, cliVars, libVars>>
notJob == <<fetchVars, sessionVars, exportVars, uploadVars, cliVars, libVars>>
notCli == <<fetchVars, sessionVars, exportVars, uploadVars, jobVars, libVars>>
notLib == <<fetchVars, sessionVars, exportVars, uploadVars, jobVars, cliVars>>

(***************************************************************************)
(* Python dictionaries: functions over a finite set of keys                *)
(***************************************************************************)
EmptyDict == <<>>

DictGet(d, k, default) == IF k \in DOMAIN d THEN d[k] ELSE default

DictUpdate(d, e) ==
    [k \in (DOMAIN d) \cup (DOMAIN e) |-> IF k \in DOMAIN e THEN e[k] ELSE d[k]]

DictSet(d, k, v) == DictUpdate(d, k :> v)

\* Python truthiness of a dict / list / optional string
Truthy(x) == x # <<>>

\* Python None for sequence-shaped values (URLs, paths, dicts)
None == <<>>

(***************************************************************************)
(* API fetcher: api_downloader.py                                          *)
(***************************************************************************)

\* config.get('max_records', 1000)
DefaultMaxRecords == 1000
\* config.get('limit', 1000)
DefaultLimit == 1000

\* A response body, by what json.loads and the callers make of it:
\*   "fc"      a JSON object with a 'features' list (GeoJSON), n features,
\*             and a link with rel 'next' iff next
\*   "env"     a JSON object without 'features' whose key 'body' holds a string;
\*             inner says what that string is
\*   "obj"     any other JSON object
\*   "list"    a JSON array
\*   "scalar"  a JSON number, string, true, false or null
\*   "notjson" text that is not JSON
\*   "empty"   the empty string
\*   "httperr" no body at all: http_get itself fails
InnerKinds == {"fc", "obj", "list", "scalar", "notjson", "empty"}

Responses ==
       [kind : {"fc"}, inner : {"-"}, n : 0..MaxPageSize, next : BOOLEAN]
  \cup [kind : {"env"}, inner : {"fc"}, n : 0..MaxPageSize, next : BOOLEAN]
  \cup [kind : {"env"}, inner : InnerKinds \ {"fc"}, n : {0}, next : {FALSE}]
  \cup [kind : {"obj", "list", "scalar", "notjson", "empty", "httperr"},
        inner : {"-"}, n : {0}, next : {FALSE}]

\* the text a frame's 'body' cell holds
Text(kind, n, next) == [kind |-> kind, inner |-> "-", n |-> n, next |-> next]

\* the features carried by the r-th response
FeaturesOf(r, n) == [i \in 1..n |-> <<r, i>>]

\* json.loads(text): "error" for a JSONDecodeError, else the parsed value's shape
JsonLoads(text) ==
    IF text.kind \in {"notjson", "empty"} THEN "error"
    ELSE IF text.kind \in {"fc", "env", "obj"} THEN "dict"
    ELSE text.kind

\* download_with_http_client: the frame handed back for a response.
\* raised: the query failed; hasBody: 'body' in df.columns; body: df['body'].iloc[0]
download_with_http_client(resp) ==
    IF resp.kind = "httperr"
      THEN [raised |-> TRUE, hasBody |-> FALSE, body |-> Text("empty", 0, FALSE)]
    ELSE IF resp.kind = "empty"
      \* result['body'].iloc[0] is falsy: the raw frame
      THEN [raised |-> FALSE, hasBody |-> TRUE, body |-> Text("empty", 0, FALSE)]
    ELSE IF JsonLoads(resp) = "error"
      \* JSONDecodeError is caught and logged: the raw frame
      THEN [raised |-> FALSE, hasBody |-> TRUE, body |-> Text(resp.kind, 0, FALSE)]
    ELSE IF JsonLoads(resp) = "list"
      \* pd.DataFrame(data)
      THEN [raised |-> FALSE, hasBody |-> FALSE, body |-> Text("empty", 0, FALSE)]
    ELSE IF JsonLoads(resp) = "dict"
      THEN IF resp.kind = "fc"
             \* _parse_geojson_response: one row per feature, no 'body' column
             THEN [raised |-> FALSE, hasBody |-> FALSE, body |-> Text("empty", 0, FALSE)]
           ELSE IF resp.kind = "env"
             \* pd.DataFrame([data]): the object's keys become the columns
             THEN [raised |-> FALSE, hasBody |-> TRUE,
                   body |-> Text(resp.inner, resp.n, resp.next)]
           ELSE [raised |-> FALSE, hasBody |-> FALSE, body |-> Text("empty", 0, FALSE)]
    \* neither list nor dict: falls out of the try, the raw frame
    ELSE [raised |-> FALSE, hasBody |-> TRUE, body |-> Text(resp.kind, 0, FALSE)]

\* json.loads(df['body'].iloc[0]) followed by data.get(...): TRUE when one of
\* the two raises (JSONDecodeError, or AttributeError on a non-dict)
BodyRaises(frame) == JsonLoads(frame.body) # "dict"

\* data.get('features', []) of the parsed body, for the r-th response
BodyFeatures(frame, r) ==
    IF frame.body.kind = "fc" THEN FeaturesOf(r, frame.body.n) ELSE <<>>

\* the href of the link with rel 'next' in the r-th response, None without one
Href(r) == <<"next", r>>

BodyNext(frame, r) ==
    IF frame.body.kind = "fc" /\ frame.body.next THEN Href(r) ELSE None

\* f"{bbox.min_lon},{bbox.min_lat},{bbox.max_lon},{bbox.max_lat}"
BBoxString(b) == <<"str", b[1], b[2], b[3], b[4]>>

\* f"...,EPSG:4326"
BBoxStringCRS(b) == <<"str", b[1], b[2], b[3], b[4], "EPSG:4326">>

BaseUrl == <<"base">>
QueryUrl == <<"base", "query">>
ItemsUrl == <<"base", "collections", "items">>

\* the bounding boxes and api_config dictionaries callers pass
BBoxes == {None, <<1, 2, 3, 4>>}

ConfigParams == {EmptyDict, "where" :> "x=1"}

ApiConfigs ==
    { ("type" :> t) @@ ("params" :> p) :
        t \in {"arcgis", "wfs", "ogcapi", "generic"}, p \in ConfigParams }
  \cup
    { "type" :> "generic" }
  \cup
    { ("type" :> "arcgis") @@ ("params" :> p) @@ ("max_records" :> m) :
        p \in ConfigParams, m \in 1..MaxPageSize }

Scripts == UNION { [1..k -> Responses] : k \in 1..MaxPages }

\* params of _download_arcgis_rest before the loop (lines 243-256)
ArcgisParams(config, b) ==
    LET base == ("f" :> "geojson") @@ ("outFields" :> "*") @@ ("where" :> "1=1")
                @@ ("returnGeometry" :> "true")
        withBox == IF Truthy(b)
                     THEN DictUpdate(base, ("geometry" :> BBoxString(b))
                            @@ ("geometryType" :> "esriGeometryEnvelope")
                            @@ ("spatialRel" :> "esriSpatialRelIntersects"))
                     ELSE base
    IN DictUpdate(withBox, DictGet(config, "params", EmptyDict))

\* params of _download_wfs (lines 293-305)
WfsParams(config, b) ==
    LET base == ("service" :> "WFS") @@ ("version" :> DictGet(config, "version", "2.0.0"))
                @@ ("request" :> "GetFeature")
                @@ ("typeName" :> DictGet(config, "layer_name", "None"))
                @@ ("outputFormat" :> "application/json")
        withBox == IF Truthy(b) THEN DictSet(base, "bbox", BBoxStringCRS(b)) ELSE base
    IN DictUpdate(withBox, DictGet(config, "params", EmptyDict))

\* params of _download_ogc_api (lines 321-329)
OgcParams(config, b) ==
    LET base == ("f" :> "json") @@ ("limit" :> DictGet(config, "limit", DefaultLimit))
        withBox == IF Truthy(b) THEN DictSet(base, "bbox", BBoxString(b)) ELSE base
    IN DictUpdate(withBox, DictGet(config, "params", EmptyDict))

\* the request download_with_http_client issues: an empty params dict is not sent
Request(url, p) == [url |-> url, params |-> p]

\* _bbox_to_params (lines 356-367)
_bbox_to_params(b, api_type) ==
    IF api_type \in {"wfs", "ogcapi"}
      THEN "bbox" :> BBoxString(b)
      ELSE ("minx" :> <<"str", b[1]>>) @@ ("miny" :> <<"str", b[2]>>)
           @@ ("maxx" :> <<"str", b[3]>>) @@ ("maxy" :> <<"str", b[4]>>)

\* the generic branch of download_spatial_api (lines 231-233): params is
\* api_config.get('params', {}), updated in place when a box is given
GenericParams(config, b, api_type) ==
    IF Truthy(b)
      THEN DictUpdate(DictGet(config, "params", EmptyDict), _bbox_to_params(b, api_type))
      ELSE DictGet(config, "params", EmptyDict)

\* what the in-place update leaves in the caller's dictionary: params is the
\* object api_config holds under 'params', when it holds one
GenericConfig(config, b, api_type) ==
    IF "params" \in DOMAIN config
      THEN DictSet(config, "params", GenericParams(config, b, api_type))
      ELSE config

FetchInit ==
    /\ fpc = "idle"
    /\ api_config \in ApiConfigs
    /\ bbox \in BBoxes
    /\ script \in Scripts
    /\ params = EmptyDict
    /\ offset = 0
    /\ limit = 0
    /\ next_url = None
    /\ all_features = <<>>
    /\ requests = <<>>
    /\ fresult = <<>>

\* download_spatial_api: dispatch on api_config['type'], up to the first request
download_spatial_api ==
    /\ UNCHANGED notFetch
    /\ fpc = "idle"
    /\ LET api_type == DictGet(api_config, "type", "")
       IN /\ fpc' = api_type
          /\ params' = CASE api_type = "arcgis" -> ArcgisParams(api_config, bbox)
                         [] api_type = "wfs" -> WfsParams(api_config, bbox)
                         [] api_type = "ogcapi" -> OgcParams(api_config, bbox)
                         [] OTHER -> GenericParams(api_config, bbox, api_type)
          /\ api_config' = IF api_type \in {"arcgis", "wfs", "ogcapi"}
                             THEN api_config
                             ELSE GenericConfig(api_config, bbox, api_type)
          /\ limit' = IF api_type = "arcgis"
                        THEN DictGet(api_config, "max_records", DefaultMaxRecords)
                        ELSE 0
          /\ next_url' = IF api_type = "ogcapi" THEN ItemsUrl ELSE None
    /\ offset' = 0
    /\ all_features' = <<>>
    /\ UNCHANGED <<bbox, script, requests, fresult>>

\* one pass of the `while True` loop of _download_arcgis_rest (lines 263-288)
ArcgisPage ==
    /\ UNCHANGED notFetch
    /\ fpc = "arcgis"
    /\ Len(requests) < Len(script)
    /\ LET r == Len(requests) + 1
           sent == DictUpdate(params, ("resultOffset" :> offset)
                                      @@ ("resultRecordCount" :> limit))
           df == download_with_http_client(script[r])
           features == BodyFeatures(df, r)
       IN /\ params' = sent
          /\ requests' = Append(requests, Request(QueryUrl, sent))
          /\ IF df.raised
               THEN /\ fpc' = "raised"
                    /\ UNCHANGED <<offset, all_features, fresult>>
             ELSE IF ~df.hasBody
               \* no 'body' column: nothing is read, the loop goes round again
               THEN UNCHANGED <<fpc, offset, all_features, fresult>>
             ELSE IF BodyRaises(df)
               THEN /\ fpc' = "raised"
                    /\ UNCHANGED <<offset, all_features, fresult>>
             ELSE IF features = <<>>
               THEN /\ fpc' = "done"
                    /\ fresult' = all_features
                    /\ UNCHANGED <<offset, all_features>>
             ELSE /\ all_features' = all_features \o features
                  /\ IF Len(features) < limit
                       THEN /\ fpc' = "done"
                            /\ fresult' = all_features'
                            /\ UNCHANGED offset
                       ELSE /\ offset' = offset + limit
                            /\ UNCHANGED <<fpc, fresult>>
    /\ UNCHANGED <<api_config, bbox, script, limit, next_url>>

\* _download_wfs: the single request and the conversion (lines 307-313)
WfsRequest ==
    /\ UNCHANGED notFetch
    /\ fpc = "wfs"
    /\ LET df == download_with_http_client(script[1])
       IN /\ requests' = Append(requests, Request(BaseUrl, params))
          /\ IF df.raised \/ (df.hasBody /\ BodyRaises(df))
               THEN /\ fpc' = "raised"
                    /\ UNCHANGED fresult
               ELSE /\ fpc' = "done"
                    /\ fresult' = IF df.hasBody THEN BodyFeatures(df, 1) ELSE <<>>
    /\ UNCHANGED <<api_config, bbox, script, params, offset, limit, next_url, all_features>>

\* one pass of the `while next_url` loop of _download_ogc_api (lines 335-354)
OgcPage ==
    /\ UNCHANGED notFetch
    /\ fpc = "ogcapi"
    /\ Len(requests) < Len(script)
    /\ LET r == Len(requests) + 1
           df == download_with_http_client(script[r])
       IN /\ requests' = Append(requests, Request(next_url, params))
          /\ IF df.raised
               THEN /\ fpc' = "raised"
                    /\ UNCHANGED <<params, next_url, all_features, fresult>>
             ELSE IF ~df.hasBody
               \* else: break
               THEN /\ fpc' = "done"
                    /\ fresult' = all_features
                    /\ UNCHANGED <<params, next_url, all_features>>
             ELSE IF BodyRaises(df)
               THEN /\ fpc' = "raised"
                    /\ UNCHANGED <<params, next_url, all_features, fresult>>
             ELSE /\ all_features' = all_features \o BodyFeatures(df, r)
                  /\ next_url' = BodyNext(df, r)
                  /\ params' = EmptyDict
                  /\ IF Truthy(next_url')
                       THEN UNCHANGED <<fpc, fresult>>
                       ELSE /\ fpc' = "done"
                            /\ fresult' = all_features'
    /\ UNCHANGED <<api_config, bbox, script, offset, limit>>

\* the generic branch: one request, then _convert_to_geodataframe (lines
\* 235-238, 369-398), which finds a 'geometry' column in the frame parsed from
\* a feature collection with features and raises ValueError on a frame
\* without geometry or lat/lon columns
GenericRequest ==
    /\ UNCHANGED notFetch
    /\ fpc = "generic"
    /\ LET df == download_with_http_client(script[1])
       IN /\ requests' = Append(requests, Request(BaseUrl, params))
          /\ IF ~df.raised /\ script[1].kind = "fc" /\ script[1].n > 0
               THEN /\ fpc' = "done"
                    /\ fresult' = FeaturesOf(1, script[1].n)
               ELSE /\ fpc' = "raised"
                    /\ UNCHANGED fresult
    /\ UNCHANGED <<api_config, bbox, script, params, offset, limit, next_url, all_features>>

FetchNext ==
    \/ download_spatial_api
    \/ ArcgisPage
    \/ WfsRequest
    \/ OgcPage
    \/ GenericRequest

(***************************************************************************)
(* Query-engine sessions: DuckDBSpatialExtractor and APIDownloader used    *)
(* in a `with` statement, and BBoxCalculator.calculate_with_duckdb         *)
(***************************************************************************)

\* most sessions opened in one run
MaxSessions == 3

Extensions == {"spatial", "httpfs", "zipfs", "http_client", "json"}

\* extensions of DuckDBSpatialExtractor.connect (lines 42-44)
ExtractorExtensions(zip) ==
    IF zip THEN <<"spatial", "httpfs", "zipfs">> ELSE <<"spatial", "httpfs">>

\* extensions of APIDownloader.connect (line 43)
DownloaderExtensions == <<"httpfs", "http_client", "spatial", "json">>

Range(seq) == {seq[i] : i \in 1..Len(seq)}

\* duckdb.connect: a new open session owned by the block or call that opened it
OpenSession(owner) == Append(sessions, [owner |-> owner, open |-> TRUE, scope |-> "active"])

\* connection.close()
CloseSession(ss, c) == [ss EXCEPT ![c].open = FALSE]

\* the block or call that opened session c is left
LeaveScope(ss, c) == [ss EXCEPT ![c].scope = "exited"]

\* DuckDBSpatialExtractor.disconnect / APIDownloader.disconnect
disconnect(ss, conn) == IF conn # 0 THEN CloseSession(ss, conn) ELSE ss

SessionInit ==
    /\ sessions = <<>>
    /\ extFail \in SUBSET Extensions
    /\ zipSource \in BOOLEAN
    /\ xpc = "idle"
    /\ xconn = 0
    /\ dpc = "idle"
    /\ dconn = 0
    /\ bpc = "idle"

\* DuckDBSpatialExtractor.__init__
ExtractorNew ==
    /\ UNCHANGED notSession
    /\ xpc \in {"exited", "raised"}
    /\ xpc' = "idle"
    /\ xconn' = 0
    /\ UNCHANGED <<sessions, extFail, zipSource, dpc, dconn, bpc>>

\* DuckDBSpatialExtractor.__enter__ -> connect (lines 27-54).  An exception
\* in __enter__ leaves the with statement without calling __exit__.
ExtractorEnter ==
    /\ UNCHANGED notSession
    /\ xpc = "idle"
    /\ Len(sessions) < MaxSessions
    /\ \E connected \in BOOLEAN :
         IF ~connected
           THEN /\ xpc' = "raised"
                /\ UNCHANGED <<sessions, xconn>>
           ELSE LET c == Len(sessions) + 1
                    failed == Range(ExtractorExtensions(zipSource)) \cap extFail # {}
                IN /\ xconn' = c
                   /\ IF failed
                        \* except: log and re-raise
                        THEN /\ xpc' = "raised"
                             /\ sessions' = LeaveScope(OpenSession("extractor"), c)
                        ELSE /\ xpc' = "body"
                             /\ sessions' = OpenSession("extractor")
    /\ UNCHANGED <<extFail, zipSource, dpc, dconn, bpc>>

\* the body of the with statement ends, by return or by exception, and
\* DuckDBSpatialExtractor.__exit__ -> disconnect runs (lines 32-34, 56-63)
ExtractorExit ==
    /\ UNCHANGED notSession
    /\ xpc = "body"
    /\ \E raised \in BOOLEAN : xpc' = IF raised THEN "raised" ELSE "exited"
    /\ sessions' = LeaveScope(disconnect(sessions, xconn), xconn)
    /\ UNCHANGED <<extFail, zipSource, xconn, dpc, dconn, bpc>>

\* APIDownloader.__init__
DownloaderNew ==
    /\ UNCHANGED notSession
    /\ dpc \in {"exited", "raised"}
    /\ dpc' = "idle"
    /\ dconn' = 0
    /\ UNCHANGED <<sessions, extFail, zipSource, xpc, xconn, bpc>>

\* APIDownloader.__enter__ -> connect (lines 28-55): a failing extension is
\* logged inside the loop, so only duckdb.connect can make connect raise
DownloaderEnter ==
    /\ UNCHANGED notSession
    /\ dpc = "idle"
    /\ Len(sessions) < MaxSessions
    /\ \E connected \in BOOLEAN :
         IF ~connected
           THEN /\ dpc' = "raised"
                /\ UNCHANGED <<sessions, dconn>>
           ELSE /\ dconn' = Len(sessions) + 1
                /\ dpc' = "body"
                /\ sessions' = OpenSession("downloader")
    /\ UNCHANGED <<extFail, zipSource, xpc, xconn, bpc>>

\* the body ends and APIDownloader.__exit__ -> disconnect runs (lines 33-35, 57-64)
DownloaderExit ==
    /\ UNCHANGED notSession
    /\ dpc = "body"
    /\ \E raised \in BOOLEAN : dpc' = IF raised THEN "raised" ELSE "exited"
    /\ sessions' = LeaveScope(disconnect(sessions, dconn), dconn)
    /\ UNCHANGED <<extFail, zipSource, xpc, xconn, dconn>> /\ UNCHANGED bpc

\* BBoxCalculator.calculate_with_duckdb (bbox_calculator.py lines 177-237):
\* conn.close() is the last statement before `return bbox`
calculate_with_duckdb ==
    /\ UNCHANGED notSession
    /\ Len(sessions) < MaxSessions
    /\ \E outcome \in {"connect_error", "query_error", "no_features", "ok"} :
         LET c == Len(sessions) + 1
         IN IF outcome = "connect_error"
              THEN /\ bpc' = "raised"
                   /\ UNCHANGED sessions
            ELSE IF "spatial" \in extFail \/ outcome \in {"query_error", "no_features"}
              THEN /\ bpc' = "raised"
                   /\ sessions' = LeaveScope(OpenSession("bbox"), c)
            ELSE /\ bpc' = "returned"
                 /\ sessions' = LeaveScope(CloseSession(OpenSession("bbox"), c), c)
    /\ UNCHANGED <<extFail, zipSource, xpc, xconn, dpc, dconn>>

SessionNext ==
    \/ ExtractorNew
    \/ ExtractorEnter
    \/ ExtractorExit
    \/ DownloaderNew
    \/ DownloaderEnter
    \/ DownloaderExit
    \/ calculate_with_duckdb

\* the sessions component at rest
SessionIdle ==
    /\ sessions = <<>>
    /\ extFail = {}
    /\ zipSource = FALSE
    /\ xpc = "idle"
    /\ xconn = 0
    /\ dpc = "idle"
    /\ dconn = 0
    /\ bpc = "idle"

(***************************************************************************)
(* Exporter: DataExporter in data_extractor.py                             *)
(***************************************************************************)
\* longest list of format tokens handed to export_multiple
MaxFormats == 2

\* DataExporter.SUPPORTED_FORMATS (lines 175-182)
SUPPORTED_FORMATS ==
    ("geojson" :> [driver |-> "GeoJSON", extension |-> ".geojson"])
 @@ ("shapefile" :> [driver |-> "ESRI Shapefile", extension |-> ".shp"])
 @@ ("gpkg" :> [driver |-> "GPKG", extension |-> ".gpkg"])
 @@ ("filegdb" :> [driver |-> "FileGDB", extension |-> ".gdb"])
 @@ ("csv" :> [driver |-> "None", extension |-> ".csv"])
 @@ ("parquet" :> [driver |-> "None", extension |-> ".parquet"])

\* the format tokens callers pass: the six of the table, and two outside it
FormatTokens == DOMAIN SUPPORTED_FORMATS \cup {"kml", "GeoJSON"}

FormatLists == UNION { [1..k -> FormatTokens] : k \in 0..MaxFormats }

\* format.lower(), on the tokens above
Lower(format) == IF format = "GeoJSON" THEN "geojson" ELSE format

\* `format not in self.SUPPORTED_FORMATS` negated
IsSupported(format) == format \in DOMAIN SUPPORTED_FORMATS

\* a path is the sequence of its pieces: directory, stem, suffixes
\* str(output_dir_path / f"{base_name}{extension}")
OutputPath(extension) == <<"out", "base", extension>>

\* output_path.endswith('.gdb')
EndsWithGdb(path) == Len(path) > 0 /\ path[Len(path)] = ".gdb"

\* lines 225-226: output_path += '.gdb' unless it ends with it
CoercePath(output_path) ==
    IF EndsWithGdb(output_path) THEN output_path ELSE Append(output_path, ".gdb")

\* a layer name is a string; "None" and "" are the falsy ones
LayerNames == {"None", "", "roads"}

\* layer_name or 'data'
LayerOrDefault(layer_name) == IF layer_name \in {"None", ""} THEN "data" ELSE layer_name

\* Path(output_path).exists()
Exists(d, path) == path \in DOMAIN d

\* shutil.rmtree(output_path_obj)
RemoveTree(d, path) == [q \in (DOMAIN d) \ {path} |-> d[q]]

\* (mutant) the existing container is left in place
RemoveExistingSkipped(d, path) == d

\* lines 229-231: remove the container when it exists
RemoveExisting(d, path) == IF Exists(d, path) THEN RemoveTree(d, path) ELSE d

\* gdf.to_file(path, driver=..., layer=layer) on a container: the layer is
\* written into the container, which is created when absent
WriteLayer(d, path, layer) == DictSet(d, path, DictGet(d, path, {}) \cup {layer})

\* to_csv / to_parquet / to_file on a single-file format: the file is rewritten
WriteFile(d, path) == DictSet(d, path, {"table"})

\* one attempted write
WriteRec(driver, path, layer, ok) ==
    [driver |-> driver, path |-> path, layer |-> layer, ok |-> ok]

\* what the environment does to one export call: whether rmtree, mkdir, the
\* primary-driver write, the fallback-driver write and a plain write succeed
ExportEnvs == [rm : BOOLEAN, mk : BOOLEAN, primary : BOOLEAN, fallback : BOOLEAN,
               write : BOOLEAN]

\* the environments that differ in something an export of `format` looks at
EnvsFor(format) ==
    IF Lower(format) = "filegdb"
      THEN {e \in ExportEnvs : e.write}
      ELSE {e \in ExportEnvs : e.rm /\ e.mk /\ e.primary /\ e.fallback}

\* the path and layer of the fallback write (line 247)
FallbackTarget(coerced, layer) == [path |-> coerced, layer |-> layer]

\* (mutant) the except branch gives up without trying the fallback driver
FileGdbNoFallback(d, coerced, layer, layerBound, first, env) ==
    [ret |-> FALSE, raised |-> FALSE, disk |-> d, writes |-> first]

\* the except branch of _export_filegdb (lines 243-252).  layerBound is FALSE
\* when the failure came before `layer = ...`: the retry then dies of an
\* UnboundLocalError inside the inner try, which the inner except catches.
FileGdbFallback(d, coerced, layer, layerBound, first, env) ==
    IF ~layerBound
      THEN [ret |-> FALSE, raised |-> FALSE, disk |-> d, writes |-> first]
    ELSE LET t == FallbackTarget(coerced, layer)
         IN IF env.fallback
              THEN [ret |-> TRUE, raised |-> FALSE, disk |-> WriteLayer(d, t.path, t.layer),
                    writes |-> Append(first, WriteRec("OpenFileGDB", t.path, t.layer, TRUE))]
              ELSE [ret |-> FALSE, raised |-> FALSE, disk |-> d,
                    writes |-> Append(first, WriteRec("OpenFileGDB", t.path, t.layer, FALSE))]

\* DataExporter._export_filegdb (lines 221-252)
_export_filegdb(d, output_path, layer_name, env) ==
    LET coerced == CoercePath(output_path)
        layer == LayerOrDefault(layer_name)
        cleared == RemoveExisting(d, coerced)
    IN IF Exists(d, coerced) /\ ~env.rm
         \* rmtree raises
         THEN FileGdbFallback(d, coerced, layer, FALSE, <<>>, env)
       ELSE IF ~env.mk
         \* parent.mkdir raises
         THEN FileGdbFallback(cleared, coerced, layer, FALSE, <<>>, env)
       ELSE IF env.primary
         THEN [ret |-> TRUE, raised |-> FALSE, disk |-> WriteLayer(cleared, coerced, layer),
               writes |-> <<WriteRec("FileGDB", coerced, layer, TRUE)>>]
       ELSE FileGdbFallback(cleared, coerced, layer, TRUE,
                            <<WriteRec("FileGDB", coerced, layer, FALSE)>>, env)

\* DataExporter.export (lines 187-219)
export(d, output_path, format, layer_name, env) ==
    LET f == Lower(format)
        plain(driver) ==
            IF env.write
              THEN [ret |-> TRUE, raised |-> FALSE, disk |-> WriteFile(d, output_path),
                    writes |-> <<WriteRec(driver, output_path, "-", TRUE)>>]
              ELSE [ret |-> FALSE, raised |-> FALSE, disk |-> d,
                    writes |-> <<WriteRec(driver, output_path, "-", FALSE)>>]
    IN IF ~IsSupported(f)
         THEN [ret |-> FALSE, raised |-> FALSE, disk |-> d, writes |-> <<>>]
       ELSE IF f = "csv" THEN plain("to_csv")
       ELSE IF f = "parquet" THEN plain("to_parquet")
       ELSE IF f = "filegdb" THEN _export_filegdb(d, output_path, layer_name, env)
       ELSE plain(SUPPORTED_FORMATS[f].driver)

\* the record kept of an export() call; existed: a container was present at
\* the coerced path when the call began
CallRec(d, output_path, format, layer_name, r) ==
    [output_path |-> output_path, format |-> format, layer_name |-> layer_name,
     existed |-> Exists(d, CoercePath(output_path)),
     ret |-> r.ret, raised |-> r.raised, writes |-> r.writes]

\* no export() call yet
NoCall ==
    [output_path |-> None, format |-> "", layer_name |-> "None", existed |-> FALSE,
     ret |-> FALSE, raised |-> FALSE, writes |-> <<>>]

\* (mutant) a failed format gets no entry
RecordResultDropFailed(res, format, output_path, success) ==
    IF success THEN DictSet(res, format, output_path) ELSE res

\* lines 271-274: the entry export_multiple stores for a format it tried
RecordResult(res, format, output_path, success) ==
    DictSet(res, format, IF success THEN output_path ELSE None)

\* (mutant) `break` in place of `continue`
AfterSkipBreak(i, n) == n + 1

\* line 265: `continue` moves on to the next token
AfterSkip(i, n) == i + 1

\* the paths callers hand to export() directly, and the containers that may
\* exist before the run
ExportPaths == {<<"out", "x">>, <<"out", "x", ".gdb">>, <<"out", "base", ".gdb">>}

OldContainers == {<<"out", "x", ".gdb">>, <<"out", "base", ".gdb">>}

ExportInit ==
    /\ epc = "idle"
    /\ formats = <<>>
    /\ fidx = 1
    /\ results = EmptyDict
    /\ attempts = <<>>
    /\ disk \in { [q \in S |-> {"old"}] : S \in SUBSET OldContainers }
    /\ ecall = NoCall

\* a direct call of DataExporter.export; epc "direct" marks a run of direct calls
ExportCall ==
    /\ UNCHANGED notExport
    /\ epc \in {"idle", "direct"}
    /\ \E output_path \in ExportPaths, format \in FormatTokens, layer_name \in LayerNames :
         \E env \in EnvsFor(format) :
           LET r == export(disk, output_path, format, layer_name, env)
           IN /\ disk' = r.disk
              /\ ecall' = CallRec(disk, output_path, format, layer_name, r)
    /\ epc' = "direct"
    /\ UNCHANGED <<formats, fidx, results, attempts>>

\* DataExporter.export_multiple up to the loop (lines 254-260)
export_multiple ==
    /\ UNCHANGED notExport
    /\ epc = "idle"
    /\ \E fs \in FormatLists :
         /\ formats' = fs
         /\ epc' = IF fs = <<>> THEN "done" ELSE "loop"
    /\ fidx' = 1
    /\ results' = EmptyDict
    /\ attempts' = <<>>
    /\ UNCHANGED <<disk, ecall>>

\* one pass of the loop of export_multiple (lines 262-276)
export_multiple_step ==
    /\ UNCHANGED notExport
    /\ epc = "loop"
    /\ LET format == formats[fidx]
       IN IF ~IsSupported(format)
            THEN /\ fidx' = AfterSkip(fidx, Len(formats))
                 /\ UNCHANGED <<results, attempts, disk, ecall>>
            ELSE \E env \in EnvsFor(format) :
                   LET output_path == OutputPath(SUPPORTED_FORMATS[format].extension)
                       r == export(disk, output_path, format, "None", env)
                   IN /\ fidx' = fidx + 1
                      /\ results' = RecordResult(results, format, output_path, r.ret)
                      /\ attempts' = Append(attempts,
                            [format |-> format, path |-> output_path, ok |-> r.ret])
                      /\ disk' = r.disk
                      /\ ecall' = CallRec(disk, output_path, format, "None", r)
    /\ epc' = IF fidx' > Len(formats) THEN "done" ELSE "loop"
    /\ UNCHANGED formats

ExportNext ==
    \/ ExportCall
    \/ export_multiple
    \/ export_multiple_step

(***************************************************************************)
(* Uploader: BoxUploader in box_uploader.py                                *)
(***************************************************************************)
\* most entries in the mapping handed to upload_multiple
MaxFiles == 2

\* self.config.folder_id, and another folder of the account
ConfigFolder == "F0"
OtherFolder == "F1"
Folders == {ConfigFolder, OtherFolder}

\* a file id; 0 stands for None
NoId == 0

\* file_path_obj.name: the path without its directory
Basename(path) == Tail(path)

\* local paths of the exported artifacts, and the names they get remotely
GeoJsonPath == <<"out", "base", ".geojson">>
GdbPath == <<"out", "base", ".gdb">>
CsvPath == <<"out", "base", ".csv">>

\* f"{dir_path_obj.name}.zip"
ZipName(dir_path) == Append(Basename(dir_path), ".zip")

\* the directory tempfile.TemporaryDirectory() makes for one call
TempDir == <<"tmp">>

\* Path(temp_dir) / zip_name
TempZipPath(zip_name) == TempDir \o zip_name

\* path is dir itself or lies under it
Under(path, dir) == Len(path) >= Len(dir) /\ SubSeq(path, 1, Len(dir)) = dir

\* (mutant) the temporary directory is left as it is
TemporaryDirectoryKept(paths, temp_dir) == paths

\* leaving `with tempfile.TemporaryDirectory() as temp_dir` (line 158): the
\* directory and everything under it are removed; of the paths given, those
\* that still exist
TemporaryDirectoryCleanup(paths, temp_dir) == {p \in paths : ~Under(p, temp_dir)}

\* Path.with_suffix(''): the last suffix is dropped, when there is one
WithSuffixEmpty(path) == IF Len(path) > 2 THEN SubSeq(path, 1, Len(path) - 1) ELSE path

\* shutil.make_archive(base, 'zip', ...) writes base + '.zip'
ArchivePath(temp_zip_path) == Append(WithSuffixEmpty(temp_zip_path), ".zip")

NoMeta == EmptyDict

Item(id, name, type, meta) == [id |-> id, name |-> name, type |-> type, meta |-> meta]

NoItem == Item(NoId, <<>>, "none", NoMeta)

\* (mutant) the name alone decides, the item's type is not looked at
FindByNameOnly(items, file_name, listed) ==
    IF listed /\ \E it \in items : it.name = file_name
      THEN CHOOSE it \in items : it.name = file_name
      ELSE NoItem

\* BoxUploader._find_existing_file (lines 104-113); listed is FALSE when
\* folder.get_items() fails, which is logged and answered with None
_find_existing_file(items, file_name, listed) ==
    IF listed /\ \E it \in items : it.name = file_name /\ it.type = "file"
      THEN CHOOSE it \in items : it.name = file_name /\ it.type = "file"
      ELSE NoItem

\* what the remote and the network do to one upload: the folder listing, the
\* content transfer, the metadata lookup and the metadata write succeed or
\* fail, and so does the archiving of a directory
UploadEnvs == [list : BOOLEAN, write : BOOLEAN, mget : BOOLEAN, mwrite : BOOLEAN,
               archive : BOOLEAN]

\* BoxUploader._apply_metadata (lines 115-144): the item's metadata afterwards.
\* A failing lookup is swallowed and counts as "no record"; a failing write
\* is logged.
_apply_metadata(item, metadata, env) ==
    LET existing_metadata == IF env.mget THEN item.meta ELSE NoMeta
    IN IF Truthy(existing_metadata)
         \* update the record
         THEN IF env.mwrite THEN DictUpdate(item.meta, metadata) ELSE item.meta
       \* create the record: the remote refuses a second record for one template
       ELSE IF env.mwrite /\ ~Truthy(item.meta) THEN metadata ELSE item.meta

\* no _apply_metadata call
NoMetadataOp == [op |-> "none", had |-> FALSE, looked |-> FALSE, with |-> NoMeta]

\* (mutant) a record is created whatever the lookup says
MetadataOpAlwaysCreate(item, metadata, env) ==
    [op |-> "create", had |-> Truthy(item.meta), looked |-> env.mget, with |-> metadata]

\* the _apply_metadata call (lines 115-144): op, the operation it tries
\* ("update" or "create"); had, the file has a record of the template;
\* looked, the lookup of that record succeeded; with, the mapping given
MetadataOp(item, metadata, env) ==
    [op |-> IF env.mget /\ Truthy(item.meta) THEN "update" ELSE "create",
     had |-> Truthy(item.meta), looked |-> env.mget, with |-> metadata]

\* the record kept of an upload_file call.  present: the folder held a
\* file-type item of that name when the call began; op: the remote operation
\* tried; ok: it succeeded; mop: the _apply_metadata call made
UploadRec(path, folder, name, exists, present, listed, op, ok, mop, ret) ==
    [path |-> path, folder |-> folder, name |-> name, exists |-> exists,
     present |-> present, listed |-> listed, op |-> op, ok |-> ok, mop |-> mop,
     ret |-> ret]

NoUpload == UploadRec(None, "", <<>>, FALSE, FALSE, FALSE, "none", FALSE, NoMetadataOp, NoId)

\* the items of a folder after a file's metadata changed
SetMeta(items, id, meta) ==
    {IF it.id = id THEN [it EXCEPT !.meta = meta] ELSE it : it \in items}

\* BoxUploader.upload_file (lines 57-102) on the remote state b with the local
\* files loc: what it returns, the remote state afterwards and the call's
\* record.  folder_id "" and file_name <<>> stand for the arguments left out.
upload_file(b, nid, loc, connected, tkey, file_path, folder_id, file_name, metadata, env) ==
    LET folder == IF folder_id = "" THEN ConfigFolder ELSE folder_id
        name == IF file_name = <<>> THEN Basename(file_path) ELSE file_name
        exists == file_path \in DOMAIN loc
        present == \E it \in b[folder] : it.name = name /\ it.type = "file"
        existing_file == _find_existing_file(b[folder], name, env.list)
        found == existing_file.id # NoId
        op == IF found THEN "replace" ELSE "create"
        \* update_contents / folder.upload read the local file; the remote
        \* refuses a new file whose name a file of the folder already has
        ok == /\ env.write
              /\ loc[file_path] = "file"
              /\ (found \/ ~present)
        box_file == IF found THEN existing_file ELSE Item(nid, name, "file", NoMeta)
        withFile == IF found THEN b ELSE [b EXCEPT ![folder] = @ \cup {box_file}]
        tagging == Truthy(metadata) /\ tkey
        tagged == IF tagging
                    THEN [withFile EXCEPT ![folder] =
                            SetMeta(@, box_file.id, _apply_metadata(box_file, metadata, env))]
                    ELSE withFile
    IN IF ~connected
         \* RuntimeError("No active Box connection")
         THEN [raised |-> TRUE, ret |-> NoId, box |-> b, nextId |-> nid, rec |-> NoUpload]
       ELSE IF ~exists
         THEN [raised |-> FALSE, ret |-> NoId, box |-> b, nextId |-> nid,
               rec |-> UploadRec(file_path, folder, name, FALSE, present, FALSE,
                                 "none", FALSE, NoMetadataOp, NoId)]
       ELSE IF ~ok
         \* BoxAPIException or another exception: logged, None
         THEN [raised |-> FALSE, ret |-> NoId, box |-> b, nextId |-> nid,
               rec |-> UploadRec(file_path, folder, name, TRUE, present, env.list,
                                 op, FALSE, NoMetadataOp, NoId)]
       ELSE [raised |-> FALSE, ret |-> box_file.id, box |-> tagged,
             nextId |-> IF found THEN nid ELSE nid + 1,
             rec |-> UploadRec(file_path, folder, name, TRUE, present, env.list, op, TRUE,
                               IF tagging THEN MetadataOp(box_file, metadata, env)
                                          ELSE NoMetadataOp,
                               box_file.id)]

\* BoxUploader.upload_directory_as_zip (lines 146-180): as upload_file, with
\* tmp, the temporary paths that exist when the call is over
upload_directory_as_zip(b, nid, loc, connected, tkey, dir_path, folder_id, zip_name, metadata, env) ==
    LET name == IF zip_name = <<>> THEN ZipName(dir_path) ELSE zip_name
        temp_zip_path == TempZipPath(name)
        archived == IF env.archive THEN (ArchivePath(temp_zip_path) :> "file") ELSE EmptyDict
        \* what the call has made on the local disk when the with block ends
        made == {TempDir} \cup DOMAIN archived
        r == upload_file(b, nid, DictUpdate(loc, archived), connected, tkey,
                         temp_zip_path, folder_id, name, metadata, env)
        failed == [raised |-> FALSE, ret |-> NoId, box |-> b, nextId |-> nid,
                   rec |-> NoUpload]
    IN IF ~(dir_path \in DOMAIN loc /\ loc[dir_path] = "dir")
         \* "Directory not found": no temporary directory is made
         THEN failed @@ ("tmp" :> {})
       ELSE IF ~env.archive \/ r.raised
         \* except Exception: logged, None; the with block is left
         THEN failed @@ ("tmp" :> TemporaryDirectoryCleanup(made, TempDir))
       ELSE [raised |-> FALSE, ret |-> r.ret, box |-> r.box, nextId |-> r.nextId,
             rec |-> r.rec, tmp |-> TemporaryDirectoryCleanup(made, TempDir)]

\* (mutant) a failed item gets no entry
BatchEntryDropFailed(res, format_type, file_id) ==
    IF file_id = NoId THEN res ELSE DictSet(res, format_type, file_id)

\* results[format_type] = file_id / None (lines 201-203)
BatchEntry(res, format_type, file_id) == DictSet(res, format_type, file_id)

\* the metadata mappings callers pass
Metadatas == {EmptyDict, "source" :> "custom"}

\* the mappings handed to upload_multiple: each format at most once, its path
\* None or the path the exporter gives it
UploadFormats == <<"geojson", "filegdb", "csv">>
ArtifactPath(format) ==
    CASE format = "geojson" -> GeoJsonPath
      [] format = "filegdb" -> GdbPath
      [] OTHER -> CsvPath

MapEntries == UNION { {<<f, None>>, <<f, ArtifactPath(f)>>} : f \in Range(UploadFormats) }

FilePathMaps ==
    { m \in UNION { [1..k -> MapEntries] : k \in 0..MaxFiles } :
        \A i, j \in 1..Len(m) : i # j => m[i][1] # m[j][1] }

\* what the account holds before the run: per name nothing, a file, or (for
\* the GeoJSON name) a folder of that name
InitialFolders ==
    { [f \in Folders |-> IF f = ConfigFolder THEN g \cup z ELSE {}] :
        g \in { {}, {Item(1, Basename(GeoJsonPath), "file", NoMeta)},
                {Item(1, Basename(GeoJsonPath), "file", "source" :> "old")},
                {Item(1, Basename(GeoJsonPath), "folder", NoMeta)} },
        z \in { {}, {Item(2, ZipName(GdbPath), "file", NoMeta)} } }

\* the local disk before the run
InitialLocal ==
    { g @@ d : g \in {EmptyDict, GeoJsonPath :> "file"},
               d \in {EmptyDict, GdbPath :> "dir", GdbPath :> "file"} }

UploadInit ==
    /\ upc = "new"
    /\ client = FALSE
    /\ template_key \in BOOLEAN
    /\ box \in InitialFolders
    /\ nextId = 3
    /\ local \in InitialLocal
    /\ tmpfiles = {}
    /\ file_paths = <<>>
    /\ uidx = 1
    /\ uresults = EmptyDict
    /\ ulog = <<>>
    /\ ucall = NoUpload

\* BoxUploader.__enter__ -> connect (lines 29-55)
UploaderConnect ==
    /\ UNCHANGED notUpload
    /\ upc = "new"
    /\ client' = TRUE
    /\ \E ok \in BOOLEAN : upc' = IF ok THEN "ready" ELSE "failed"
    /\ UNCHANGED <<template_key, box, nextId, local, tmpfiles, file_paths, uidx,
                   uresults, ulog, ucall>>

\* a call of upload_file from inside the with statement; upc "direct" marks a
\* run of such calls
UploadFileCall ==
    /\ UNCHANGED notUpload
    /\ upc \in {"ready", "direct"}
    /\ upc' = "direct"
    /\ \E file_path \in {GeoJsonPath, CsvPath}, folder_id \in {"", OtherFolder},
          file_name \in {<<>>, Basename(GeoJsonPath)}, metadata \in Metadatas,
          env \in {e \in UploadEnvs : e.archive} :
         LET r == upload_file(box, nextId, local, client, template_key,
                              file_path, folder_id, file_name, metadata, env)
         IN /\ ~r.raised
            /\ box' = r.box
            /\ nextId' = r.nextId
            /\ ucall' = r.rec
    /\ UNCHANGED <<client, template_key, local, tmpfiles, file_paths, uidx,
                   uresults, ulog>>

\* BoxUploader.upload_multiple up to the loop (line 185); main.py calls it
\* inside `with BoxUploader(box_config) as uploader`
upload_multiple ==
    /\ UNCHANGED notUpload
    /\ upc = "ready"
    /\ \E m \in FilePathMaps :
         /\ file_paths' = m
         /\ upc' = IF m = <<>> THEN "done" ELSE "batch"
    /\ uidx' = 1
    /\ uresults' = EmptyDict
    /\ ulog' = <<>>
    /\ UNCHANGED <<client, template_key, box, nextId, local, tmpfiles, ucall>>

\* one pass of the loop of upload_multiple (lines 187-205), the metadata being
\* the batch's
upload_multiple_step ==
    /\ UNCHANGED notUpload
    /\ upc = "batch"
    /\ \E metadata \in Metadatas, env \in UploadEnvs :
         LET format_type == file_paths[uidx][1]
             file_path == file_paths[uidx][2]
             zipped == format_type = "filegdb" /\ local[file_path] = "dir"
             r == IF zipped
                    THEN upload_directory_as_zip(box, nextId, local, client, template_key,
                                                 file_path, "", <<>>, metadata, env)
                    ELSE upload_file(box, nextId, local, client, template_key,
                                     file_path, "", <<>>, metadata, env) @@ ("tmp" :> {})
         IN IF Truthy(file_path) /\ file_path \in DOMAIN local
              THEN /\ IF r.raised
                        THEN /\ upc' = "raised"
                             /\ UNCHANGED <<uidx, uresults>>
                        ELSE /\ uresults' = BatchEntry(uresults, format_type, r.ret)
                             /\ uidx' = uidx + 1
                             /\ upc' = IF uidx' > Len(file_paths) THEN "done" ELSE "batch"
                   /\ box' = r.box
                   /\ nextId' = r.nextId
                   /\ tmpfiles' = tmpfiles \cup r.tmp
                   /\ ulog' = Append(ulog, r.rec)
                   /\ ucall' = r.rec
              ELSE /\ uresults' = BatchEntry(uresults, format_type, NoId)
                   /\ uidx' = uidx + 1
                   /\ upc' = IF uidx' > Len(file_paths) THEN "done" ELSE "batch"
                   /\ UNCHANGED <<box, nextId, tmpfiles, ulog, ucall>>
    /\ UNCHANGED <<client, template_key, local, file_paths>>

\* the with statement is left: BoxUploader.__exit__ (lines 34-37)
UploaderExit ==
    /\ UNCHANGED notUpload
    /\ upc \in {"ready", "direct", "done", "raised"}
    /\ upc' = "closed"
    /\ UNCHANGED <<client, template_key, box, nextId, local, tmpfiles, file_paths, uidx,
                   uresults, ulog, ucall>>

UploadNext ==
    \/ UploaderConnect
    \/ UploadFileCall
    \/ upload_multiple
    \/ upload_multiple_step
    \/ UploaderExit

\* the uploader at rest
UploadIdle ==
    /\ upc = "new"
    /\ client = FALSE
    /\ template_key = FALSE
    /\ box = [f \in Folders |-> {}]
    /\ nextId = 3
    /\ local = EmptyDict
    /\ tmpfiles = {}
    /\ file_paths = <<>>
    /\ uidx = 1
    /\ uresults = EmptyDict
    /\ ulog = <<>>
    /\ ucall = NoUpload

(***************************************************************************)
(* Extraction job: main.py with config.py, and the extraction it starts    *)
(* (DuckDBSpatialExtractor.extract_to_geodataframe)                        *)
(***************************************************************************)
\* most rows the bounded spatial read returns
MaxRows == 2

\* Python None where a string is expected
NoneStr == "None"

\* truth test of an optional string: `if args.config`, `if not data_source`
StrTruthy(s) == s \notin {NoneStr, ""}

\* `a or b` on optional strings: args.geom_column or "geom"
StrOr(a, b) == IF StrTruthy(a) THEN a ELSE b

\* no exit status yet: the process runs
Running == -1

\* an exception: its class, its message and the identifier the message names
Error(type, message, names) == [type |-> type, message |-> message, names |-> names]

NoError == Error("None", "", NoneStr)

\* config.py lines 11-17: BoundingBox
BoundingBox(min_lon, min_lat, max_lon, max_lat) ==
    [min_lon |-> min_lon, min_lat |-> min_lat, max_lon |-> max_lon, max_lat |-> max_lat]

\* BoundingBox.to_list (lines 19-21)
to_list(b) == <<b.min_lon, b.min_lat, b.max_lon, b.max_lat>>

\* config.py lines 29-36: DataSource
DataSource(name, url, layer_name, geometry_column) ==
    [name |-> name, url |-> url, layer_name |-> layer_name,
     geometry_column |-> geometry_column]

\* config.py lines 69-77: ExtractionConfig
ExtractionConfig(job_name, data_source, bounding_box, output_formats, output_prefix, metadata) ==
    [job_name |-> job_name, data_source |-> data_source, bounding_box |-> bounding_box,
     output_formats |-> output_formats, output_prefix |-> output_prefix,
     metadata |-> metadata]

\* no ExtractionConfig
NoConfig ==
    ExtractionConfig(NoneStr, DataSource(NoneStr, NoneStr, NoneStr, NoneStr),
                     BoundingBox(NoneStr, NoneStr, NoneStr, NoneStr), <<>>, NoneStr,
                     EmptyDict)

\* config.py lines 95-103: the registry of predefined sources
DATA_SOURCES ==
    "fws_wetlands_fl" :>
        DataSource("FWS Florida Wetlands", "zip://FL_geodatabase_wetlands.gdb", NoneStr, "geom")

\* config.py lines 107-115: the registry of predefined locations
LOCATIONS ==
    "disney_animal_kingdom" :> BoundingBox("-81.613", "28.344", "-81.568", "28.377")

\* the default of output_formats (config.py line 75, main.py line 123)
DefaultFormats == <<"geojson", "filegdb">>

\* a JSON value with its Python type t: the items of a list (or the one
\* string), the fields of an object
JList(v) == [t |-> "list", items |-> v, fields |-> EmptyDict]
JObject(d) == [t |-> "dict", items |-> <<>>, fields |-> d]
JString(s) == [t |-> "str", items |-> <<s>>, fields |-> EmptyDict]

\* isinstance(bbox_data, list) and len(bbox_data) == 4
IsList4(j) == j.t = "list" /\ Len(j.items) = 4

\* (mutant) a name the registry does not hold is let through
UnknownSourceAccepted(source_data) == FALSE

\* config.py lines 137-141: the data source is a string, and DATA_SOURCES.get
\* finds nothing under it
UnknownSource(source_data) ==
    source_data.t = "str" /\ source_data.items[1] \notin DOMAIN DATA_SOURCES

\* load_config_from_file (config.py lines 118-152) on the file's content:
\* the bounding box is parsed first, then the data source
load_config_from_file(file) ==
    LET data == file.data
        bbox_data == DictGet(data, "bounding_box", JObject(EmptyDict))
        bounding_box == IF IsList4(bbox_data)
                  THEN BoundingBox(bbox_data.items[1], bbox_data.items[2], bbox_data.items[3],
                                   bbox_data.items[4])
                  ELSE BoundingBox(DictGet(bbox_data.fields, "min_lon", NoneStr),
                                   DictGet(bbox_data.fields, "min_lat", NoneStr),
                                   DictGet(bbox_data.fields, "max_lon", NoneStr),
                                   DictGet(bbox_data.fields, "max_lat", NoneStr))
        source_data == DictGet(data, "data_source", JObject(EmptyDict))
        data_source ==
            IF source_data.t = "str"
              THEN DictGet(DATA_SOURCES, source_data.items[1], NoConfig.data_source)
              ELSE DataSource(DictGet(source_data.fields, "name", NoneStr),
                              DictGet(source_data.fields, "url", NoneStr),
                              DictGet(source_data.fields, "layer_name", NoneStr),
                              DictGet(source_data.fields, "geometry_column", "geom"))
        failed(e) == [raised |-> TRUE, error |-> e, config |-> NoConfig, warned |-> FALSE]
    IN IF ~file.readable
         \* open() or json.load fails
         THEN failed(Error("OSError", "cannot read the configuration file", NoneStr))
       ELSE IF ~IsList4(bbox_data) /\ bbox_data.t # "dict"
         \* bbox_data.get on a value that is no mapping
         THEN failed(Error("AttributeError", "object has no attribute 'get'", NoneStr))
       ELSE IF UnknownSource(source_data)
         THEN failed(Error("ValueError", "Unknown data source: ", source_data.items[1]))
       ELSE IF source_data.t # "str" /\
               ~(/\ source_data.t = "dict"
                 /\ {"name", "url"} \subseteq DOMAIN source_data.fields
                 /\ DOMAIN source_data.fields \subseteq
                      {"name", "url", "layer_name", "geometry_column", "description"})
         \* DataSource(**source_data) with a missing or an unexpected argument
         THEN failed(Error("TypeError", "DataSource.__init__()", NoneStr))
       ELSE [raised |-> FALSE, error |-> NoError, warned |-> FALSE,
             config |-> ExtractionConfig(
                 IF "job_name" \in DOMAIN data THEN data["job_name"].items[1] ELSE "extraction",
                 data_source, bounding_box, DefaultFormats, "extracted_data",
                 IF "metadata" \in DOMAIN data THEN data["metadata"].fields ELSE EmptyDict)]

\* json.loads(args.metadata) on the --metadata strings of the command line
JsonLoadsMetadata(text) ==
    CASE text = "{\"owner\": \"gis\"}" ->
           [raised |-> FALSE, value |-> JObject("owner" :> "gis")]
      [] text = "[1, 2]" -> [raised |-> FALSE, value |-> JList(<<"1", "2">>)]
      [] OTHER -> [raised |-> TRUE, value |-> JObject(EmptyDict)]

\* main.py line 66: logging.warning when json.loads rejects --metadata
MetadataWarning == "Failed to parse metadata JSON, using empty metadata"

\* create_extraction_config (main.py lines 34-83)
create_extraction_config(a, file) ==
    LET data_source ==
            IF a.source \in DOMAIN DATA_SOURCES
              THEN DATA_SOURCES[a.source]
              ELSE DataSource("custom", a.source, a.layer, StrOr(a.geom_column, "geom"))
        located == a.location \in DOMAIN LOCATIONS
        bounding_box == IF located THEN LOCATIONS[a.location]
                ELSE BoundingBox(a.bbox[1], a.bbox[2], a.bbox[3], a.bbox[4])
        loaded == JsonLoadsMetadata(a.metadata)
        \* metadata = {} unless the string parses
        metadata == IF StrTruthy(a.metadata) /\ ~loaded.raised
                      THEN loaded.value ELSE JObject(EmptyDict)
        warned == StrTruthy(a.metadata) /\ loaded.raised
        defaults == ("extraction_date" :> <<"now">>) @@ ("source" :> <<data_source.name>>)
                    @@ ("bbox" :> to_list(bounding_box))
        failed(e) == [raised |-> TRUE, error |-> e, config |-> NoConfig, warned |-> warned]
    IN IF StrTruthy(a.config)
         THEN load_config_from_file(file)
       ELSE IF ~located /\ ~Truthy(a.bbox)
         THEN [raised |-> TRUE, config |-> NoConfig, warned |-> FALSE,
               error |-> Error("ValueError", "Either --location or --bbox must be provided",
                               NoneStr)]
       ELSE IF metadata.t # "dict"
         \* metadata.update on a value that is no mapping
         THEN failed(Error("AttributeError", "object has no attribute 'update'", NoneStr))
       ELSE [raised |-> FALSE, error |-> NoError, warned |-> warned,
             config |-> ExtractionConfig(StrOr(a.job_name, "extraction"), data_source,
                                         bounding_box,
                                         a.formats, StrOr(a.output_prefix, "data"),
                                         DictUpdate(metadata.fields, defaults))]

\* BoxConfig.from_env (config.py lines 48-66): the four required variables
BoxRequired == {"BOX_CLIENT_ID", "BOX_CLIENT_SECRET", "BOX_ACCESS_TOKEN", "BOX_FOLDER_ID"}

\* os.environ.get(name): None when the variable is unset
EnvironGet(env, name) == DictGet(env, name, NoneStr)

\* from_env returning None
NoBoxConfig ==
    [set |-> FALSE, client_id |-> NoneStr, client_secret |-> NoneStr,
     access_token |-> NoneStr, folder_id |-> NoneStr, metadata_template_key |-> NoneStr]

\* cls(client_id=..., ..., metadata_template_key=...) (lines 60-66)
BoxConfig(env) ==
    [set |-> TRUE, client_id |-> EnvironGet(env, "BOX_CLIENT_ID"),
     client_secret |-> EnvironGet(env, "BOX_CLIENT_SECRET"),
     access_token |-> EnvironGet(env, "BOX_ACCESS_TOKEN"),
     folder_id |-> EnvironGet(env, "BOX_FOLDER_ID"),
     metadata_template_key |-> EnvironGet(env, "BOX_METADATA_TEMPLATE_KEY")]

\* (mutant) the object is built from whatever the environment holds
from_envUnchecked(env) == BoxConfig(env)

from_env(env) ==
    IF ~(\A name \in BoxRequired : StrTruthy(EnvironGet(env, name)))
      THEN NoBoxConfig
      ELSE BoxConfig(env)

\* the environments of a run: every variable set; one required variable unset
\* or empty; each with and without the optional key; and no variable set
BoxEnvs ==
    LET FullEnv == [name \in BoxRequired \cup {"BOX_METADATA_TEMPLATE_KEY"} |-> "value"]
        Without(env, name) == [n \in DOMAIN env \ {name} |-> env[n]]
        required == {FullEnv} \cup {Without(FullEnv, n) : n \in BoxRequired}
                    \cup {[FullEnv EXCEPT ![n] = ""] : n \in BoxRequired}
    IN required \cup {Without(e, "BOX_METADATA_TEMPLATE_KEY") : e \in required}
       \cup {EmptyDict}

\* the values a geometry column holds: a geometry object (it has
\* __geo_interface__), WKB bytes, WKT text, text that is neither, None
GeometryValues == {"geometry", "wkb", "wkt", "text", "none"}

\* what the bounded spatial read does: a query error, or a table of n rows
\* whose geometry column is found (with the values it holds) or missing
QueryOutcomes ==
    {[kind |-> "error", n |-> 0, geom |-> "found", column |-> <<>>]}
    \cup {[kind |-> "rows", n |-> n, geom |-> "missing", column |-> <<>>] : n \in 1..MaxRows}
    \cup {[kind |-> "rows", n |-> Len(column), geom |-> "found", column |-> column] :
             column \in UNION {[1..n -> GeometryValues] : n \in 0..MaxRows}}

\* a table of n rows (a DataFrame: no geometry series), the absent table
\* (Python None), and no value yet
Table(n) == [kind |-> "table", rows |-> n, geometry |-> <<>>]
NoTable == [kind |-> "None", rows |-> 0, geometry |-> <<>>]
Unset == [kind |-> "unset", rows |-> 0, geometry |-> <<>>]

\* gpd.GeoDataFrame(df, geometry=geometry_series) (line 148)
GeoDataFrame(df, geometry_series) ==
    [kind |-> "table", rows |-> df.rows, geometry |-> geometry_series]

\* DuckDBSpatialExtractor.extract_data (data_extractor.py lines 89-104)
extract_data(connected, q) ==
    IF ~connected
      THEN [raised |-> TRUE, error |-> Error("RuntimeError", "No active DuckDB connection",
                                             NoneStr),
            df |-> NoTable, geom |-> "found", column |-> <<>>]
    ELSE IF q.kind = "error"
      \* logged and re-raised
      THEN [raised |-> TRUE, error |-> Error("Exception", "Failed to extract data", NoneStr),
            df |-> NoTable, geom |-> "found", column |-> <<>>]
    ELSE [raised |-> FALSE, error |-> NoError, df |-> Table(q.n), geom |-> q.geom,
          column |-> q.column]

\* (mutant) a value the decoder rejects is skipped and its row has no geometry
ApplyLoadsSkipping(column, form) ==
    [raised |-> FALSE,
     series |-> [i \in DOMAIN column |-> IF column[i] = form THEN "geometry" ELSE "none"]]

\* df[geom_col].apply(lambda x: loads(x) if x else None) (lines 135, 141) with
\* the loads of wkb or of wkt: a value that is None is not decoded, and the
\* first value the decoder rejects raises
ApplyLoads(column, form) ==
    [raised |-> \E i \in DOMAIN column : column[i] \notin {form, "none"},
     series |-> [i \in DOMAIN column |-> IF column[i] = "none" THEN "none" ELSE "geometry"]]

\* DuckDBSpatialExtractor.to_geodataframe (lines 106-162)
to_geodataframe(df, geom, column) ==
    LET returned(table) == [raised |-> FALSE, error |-> NoError, gdf |-> table]
        failed(e) == [raised |-> TRUE, error |-> e, gdf |-> NoTable]
        from_wkb == ApplyLoads(column, "wkb")
        from_wkt == ApplyLoads(column, "wkt")
    IN IF df.kind = "None" \/ df.rows = 0
         \* "No data to convert to GeoDataFrame"
         THEN returned(NoTable)
       ELSE IF geom = "missing"
         THEN failed(Error("ValueError", "Geometry column not found", NoneStr))
       ELSE IF column[1] = "geometry"
         \* the first row is a geometry: the column is handed on as it is, and
         \* GeoDataFrame takes geometries and missing values only
         THEN IF \A i \in DOMAIN column : column[i] \in {"geometry", "none"}
                THEN returned(GeoDataFrame(df, column))
                ELSE failed(Error("TypeError", "Input must be valid geometry objects",
                                  NoneStr))
       ELSE IF ~from_wkb.raised THEN returned(GeoDataFrame(df, from_wkb.series))
       ELSE IF ~from_wkt.raised THEN returned(GeoDataFrame(df, from_wkt.series))
       ELSE failed(Error("Exception", "Failed to parse geometry", NoneStr))

\* DuckDBSpatialExtractor.extract_to_geodataframe (lines 164-169)
extract_to_geodataframe(connected, q) ==
    LET r == extract_data(connected, q)
    IN IF r.raised THEN [raised |-> TRUE, error |-> r.error, gdf |-> NoTable]
       ELSE IF r.df.kind # "None" THEN to_geodataframe(r.df, r.geom, r.column)
       ELSE [raised |-> FALSE, error |-> NoError, gdf |-> NoTable]

\* the parsed command line (main.py lines 88-177)
Args(cfg, source, layer, geom_column, location, bb, metadata, flags) ==
    [config |-> cfg, source |-> source, layer |-> layer, geom_column |-> geom_column,
     location |-> location, bbox |-> bb, metadata |-> metadata,
     formats |-> DefaultFormats, output_prefix |-> NoneStr, job_name |-> NoneStr,
     dry_run |-> flags.dry_run, upload_to_box |-> flags.upload_to_box,
     box_folder_name |-> flags.box_folder_name]

\* --dry-run, --upload-to-box and --box-folder-name as they are used together
Flags ==
    {[dry_run |-> TRUE, upload_to_box |-> FALSE, box_folder_name |-> NoneStr],
     [dry_run |-> FALSE, upload_to_box |-> FALSE, box_folder_name |-> NoneStr],
     [dry_run |-> FALSE, upload_to_box |-> TRUE, box_folder_name |-> NoneStr],
     [dry_run |-> FALSE, upload_to_box |-> TRUE, box_folder_name |-> "jobs"]}

\* a run configured on the command line; --source is left out, a predefined
\* name or a literal URL, --location a predefined name or an unknown one
CommandLines ==
    {Args(NoneStr, s, l, g, loc, b, m, f) :
        s \in {NoneStr, "fws_wetlands_fl", "https://example.com/parcels.gpkg"},
        l \in {NoneStr, "parcels"}, g \in {NoneStr, "shape"},
        loc \in {NoneStr, "disney_animal_kingdom", "atlantis"},
        b \in {None, <<"-82.0", "28.0", "-81.0", "29.0">>},
        m \in {NoneStr, "{\"owner\": \"gis\"}", "{owner", "[1, 2]"}, f \in Flags}

\* a run configured by --config
ConfigLines ==
    {Args("job.json", NoneStr, NoneStr, NoneStr, NoneStr, None, NoneStr, f) : f \in Flags}

\* no configuration file
NoFile == [readable |-> FALSE, data |-> EmptyDict]

\* the configuration files of a run, by their bounding_box and data_source
\* entries; <<>> stands for an entry that is left out
ConfigFiles ==
    LET BoundingBoxEntries ==
            {<<>>,
             <<JList(<<"-82.0", "28.0", "-81.0", "29.0">>)>>,
             <<JList(<<"-82.0", "28.0", "-81.0">>)>>,
             <<JObject(("min_lon" :> "-82.0") @@ ("min_lat" :> "28.0")
                       @@ ("max_lon" :> "-81.0") @@ ("max_lat" :> "29.0"))>>,
             <<JObject("min_lon" :> "-82.0")>>}
        DataSourceEntries ==
            {<<>>,
             <<JString("fws_wetlands_fl")>>,
             <<JString("parcels_2020")>>,
             <<JObject(("name" :> "Parcels") @@ ("url" :> "https://example.com/parcels.gpkg"))>>,
             <<JObject(("name" :> "Parcels") @@ ("url" :> "https://example.com/parcels.gpkg")
                       @@ ("layer_name" :> "parcels") @@ ("geometry_column" :> "shape"))>>,
             <<JObject("name" :> "Parcels")>>}
        Entry(key, e) == IF e = <<>> THEN EmptyDict ELSE key :> e[1]
    IN {NoFile} \cup
       {[readable |-> TRUE, data |-> Entry("bounding_box", x) @@ Entry("data_source", y)] :
           x \in BoundingBoxEntries, y \in DataSourceEntries}

\* the paths export_multiple gives the formats of the job
ExportedPath(format) == OutputPath(SUPPORTED_FORMATS[format].extension)

\* (mutant) the exception is logged and the process ends as if it had succeeded
HandleErrorSwallowed(e) == [caught |-> e, message |-> "Job failed", status |-> 0]

\* the try block of main is left by an exception (lines 263-265):
\* logger.error("Job failed: ..."), sys.exit(1)
HandleError(e) == [caught |-> e, message |-> "Job failed", status |-> 1]

JobInit ==
    /\ jpc = "start"
    /\ \/ args \in CommandLines /\ config_data = NoFile
       \/ args \in ConfigLines /\ config_data \in ConfigFiles
    /\ jconfig = NoConfig
    /\ query = [kind |-> "unset", n |-> 0, geom |-> "found", column |-> <<>>]
    /\ gdf = Unset
    /\ export_results = EmptyDict
    /\ box_env = EmptyDict
    /\ uploader = FALSE
    /\ upload_results = EmptyDict
    /\ upload_folder_id = NoneStr
    /\ uploaded_to = EmptyDict
    /\ caught = NoError
    /\ jlog = {}
    /\ exit_status = Running

\* main leaves its try block by the exception e
JobFails(e) ==
    LET h == HandleError(e)
    IN /\ caught' = h.caught
       /\ jlog' = jlog \cup {h.message}
       /\ exit_status' = h.status
       /\ jpc' = "exit"

\* main.py lines 183-197: the configuration is built, and a dry run ends here
JobConfigure ==
    /\ UNCHANGED notJob
    /\ jpc = "start"
    /\ LET r == create_extraction_config(args, config_data)
       IN IF ~StrTruthy(args.config) /\ ~StrTruthy(args.source)
            \* parser.error: usage message, exit status 2
            THEN /\ jpc' = "exit"
                 /\ exit_status' = 2
                 /\ jlog' = jlog \cup {"Either --config or --source must be provided"}
                 /\ UNCHANGED <<jconfig, caught>>
          ELSE IF r.raised
            THEN JobFails(r.error) /\ UNCHANGED jconfig
          ELSE /\ jconfig' = r.config
               /\ caught' = caught
               /\ LET warnings == IF r.warned THEN {MetadataWarning} ELSE {}
                  IN IF args.dry_run
                       THEN /\ jpc' = "exit"
                            /\ exit_status' = 0
                            /\ jlog' = jlog \cup warnings \cup {"DRY RUN - Configuration:"}
                       ELSE /\ jpc' = "configured"
                            /\ jlog' = jlog \cup warnings
                            /\ UNCHANGED exit_status
    /\ UNCHANGED <<args, config_data, query, gdf, export_results, box_env, uploader,
                   upload_results, upload_folder_id, uploaded_to>>

\* main.py line 202: `with DuckDBSpatialExtractor(config) as extractor`
JobConnect ==
    /\ UNCHANGED notJob
    /\ jpc = "configured"
    /\ \E connected \in BOOLEAN :
         IF connected
           THEN /\ jpc' = "session"
                /\ UNCHANGED <<caught, jlog, exit_status>>
           ELSE JobFails(Error("Exception", "Failed to establish DuckDB connection", NoneStr))
    /\ UNCHANGED <<args, config_data, jconfig, query, gdf, export_results, box_env,
                   uploader, upload_results, upload_folder_id, uploaded_to>>

\* main.py lines 203-209: the extraction and main's test of what it handed back
JobExtract ==
    /\ UNCHANGED notJob
    /\ jpc = "session"
    /\ \E q \in QueryOutcomes :
         LET r == extract_to_geodataframe(TRUE, q)
         IN /\ query' = q
            /\ IF r.raised
                 THEN JobFails(r.error) /\ UNCHANGED gdf
               ELSE /\ gdf' = r.gdf
                    /\ caught' = caught
                    /\ IF r.gdf.kind = "None" \/ r.gdf.rows = 0
                         \* sys.exit(1) passes `except Exception`
                         THEN /\ jlog' = jlog \cup {"No data extracted"}
                              /\ exit_status' = 1
                              /\ jpc' = "exit"
                         ELSE /\ jpc' = "extracted"
                              /\ UNCHANGED <<jlog, exit_status>>
    /\ UNCHANGED <<args, config_data, jconfig, export_results, box_env, uploader,
                   upload_results, upload_folder_id, uploaded_to>>

\* main.py lines 212-229: export_multiple makes the output directory and
\* answers, per format, the path written or None
JobExport ==
    /\ UNCHANGED notJob
    /\ jpc = "extracted"
    /\ \E made \in BOOLEAN, ok \in [Range(jconfig.output_formats) -> BOOLEAN] :
         IF ~made
           THEN JobFails(Error("OSError", "mkdir", NoneStr)) /\ UNCHANGED export_results
           ELSE /\ export_results' =
                     [f \in Range(jconfig.output_formats) |->
                         IF ok[f] THEN ExportedPath(f) ELSE None]
                /\ jlog' = jlog \cup {"Failed to export" : f \in {g \in DOMAIN ok : ~ok[g]}}
                /\ jpc' = "exported"
                /\ UNCHANGED <<caught, exit_status>>
    /\ UNCHANGED <<args, config_data, jconfig, query, gdf, box_env, uploader,
                   upload_results, upload_folder_id, uploaded_to>>

\* the folder upload_multiple's files go to: upload_file(file_path,
\* metadata=metadata) is called without folder_id (box_uploader.py lines
\* 195-203), and upload_file falls back on self.config.folder_id (line 67)
UploadFolder(box_config, chosen) == box_config.folder_id

\* main.py lines 232-259: the upload, when it is asked for; folder_id is what
\* create_folder hands back, None when it failed
JobUpload ==
    /\ UNCHANGED notJob
    /\ jpc = "exported"
    /\ args.upload_to_box
    /\ \E env \in BoxEnvs, connected \in BOOLEAN, folder_id \in {NoneStr, "subfolder"},
          ok \in [DOMAIN export_results -> BOOLEAN] :
         LET box_config == from_env(env)
             chosen == IF StrTruthy(args.box_folder_name) /\ StrTruthy(folder_id)
                         THEN folder_id ELSE box_config.folder_id
         IN /\ box_env' = env
            /\ IF ~box_config.set
                 \* sys.exit(1) passes `except Exception`
                 THEN /\ jlog' = jlog \cup
                                   {"Box configuration not found in environment variables"}
                      /\ exit_status' = 1
                      /\ jpc' = "exit"
                      /\ UNCHANGED <<uploader, upload_results, upload_folder_id,
                                     uploaded_to, caught>>
               ELSE /\ uploader' = TRUE
                    /\ IF ~connected
                         \* BoxUploader.connect logs and re-raises
                         THEN LET h == HandleError(Error("Exception",
                                                         "Failed to connect to Box", NoneStr))
                              IN /\ caught' = h.caught
                                 /\ jlog' = jlog \cup {"Uploading to Box...", h.message}
                                 /\ exit_status' = h.status
                                 /\ jpc' = "exit"
                                 /\ UNCHANGED <<upload_results, upload_folder_id,
                                                uploaded_to>>
                         ELSE /\ upload_folder_id' = chosen
                              /\ upload_results' =
                                   [f \in DOMAIN export_results |->
                                       IF Truthy(export_results[f]) /\ ok[f]
                                         THEN "id" ELSE NoneStr]
                              /\ uploaded_to' =
                                   [f \in {g \in DOMAIN export_results :
                                              Truthy(export_results[g]) /\ ok[g]} |->
                                       UploadFolder(box_config, chosen)]
                              /\ jlog' = jlog \cup {"Uploading to Box..."}
                              /\ jpc' = "uploaded"
                              /\ UNCHANGED <<caught, exit_status>>
    /\ UNCHANGED <<args, config_data, jconfig, query, gdf, export_results>>

\* main.py line 261: the with block is left and the job reports its success
JobComplete ==
    /\ UNCHANGED notJob
    /\ \/ jpc = "uploaded"
       \/ jpc = "exported" /\ ~args.upload_to_box
    /\ jlog' = jlog \cup {"Job completed successfully"}
    /\ exit_status' = 0
    /\ jpc' = "exit"
    /\ UNCHANGED <<args, config_data, jconfig, query, gdf, export_results, box_env,
                   uploader, upload_results, upload_folder_id, uploaded_to, caught>>

JobNext ==
    \/ JobConfigure
    \/ JobConnect
    \/ JobExtract
    \/ JobExport
    \/ JobUpload
    \/ JobComplete

\* the job at rest
JobIdle ==
    /\ jpc = "start"
    /\ args = Args(NoneStr, NoneStr, NoneStr, NoneStr, NoneStr, None, NoneStr,
                   [dry_run |-> FALSE, upload_to_box |-> FALSE, box_folder_name |-> NoneStr])
    /\ config_data = NoFile
    /\ jconfig = NoConfig
    /\ query = [kind |-> "unset", n |-> 0, geom |-> "found", column |-> <<>>]
    /\ gdf = Unset
    /\ export_results = EmptyDict
    /\ box_env = EmptyDict
    /\ uploader = FALSE
    /\ upload_results = EmptyDict
    /\ upload_folder_id = NoneStr
    /\ uploaded_to = EmptyDict
    /\ caught = NoError
    /\ jlog = {}
    /\ exit_status = Running

(***************************************************************************)
(* bbox command-line utility: main of bbox_calculator.py                   *)
(***************************************************************************)
\* input_path.suffix.lower(), on the suffixes of the input files
LowerSuffix(suffix) == IF suffix = ".GeoJSON" THEN ".geojson" ELSE suffix

\* whether json.loads accepts the --filter string
FilterParses(text) == text = "{\"state\": \"FL\"}"

\* the parsed command line (lines 366-379); exists: the input file is there;
\* buffer 0 stands for no --buffer (and for a buffer of 0.0, equally falsy)
BBoxArgLines ==
    [exists : BOOLEAN, suffix : {".geojson", ".GeoJSON", ".gpkg", ".shp", ".dbf", ".kml", ""},
     use_duckdb : BOOLEAN, where : {NoneStr, "population > 10000"},
     filter : {NoneStr, "{\"state\": \"FL\"}", "{state"}, buffer : {0, 1},
     output_format : {"text", "json", "wkt"}, save_to : {NoneStr, "bbox.json"}]

\* lines 394-411: the calculation main picks
CalculationMethod(a) ==
    LET file_ext == LowerSuffix(a.suffix)
    IN IF a.use_duckdb \/ StrTruthy(a.where) THEN "calculate_with_duckdb"
       ELSE IF file_ext = ".geojson" THEN "calculate_from_geojson"
       ELSE IF file_ext = ".gpkg" THEN "calculate_from_geopackage"
       ELSE IF file_ext \in {".shp", ".dbf"} THEN "calculate_from_shapefile"
       ELSE "unsupported"

\* (mutant) the exception is logged and the utility ends as if it had succeeded
BBoxHandleErrorSwallowed(e) == [caught |-> e, status |-> 0]

\* lines 460-462: except Exception: logger.error, sys.exit(1)
BBoxHandleError(e) == [caught |-> e, status |-> 1]

CliInit ==
    /\ bbox_pc = "start"
    /\ bbox_args \in BBoxArgLines
    /\ bbox_caught = NoError
    /\ bbox_saved = FALSE
    /\ bbox_exit = Running

\* main leaves its try block by the exception e
BBoxFails(e) ==
    LET h == BBoxHandleError(e)
    IN /\ bbox_caught' = h.caught
       /\ bbox_exit' = h.status
       /\ bbox_pc' = "exit"

\* lines 381-385: the input file is looked for
BBoxValidate ==
    /\ UNCHANGED notCli
    /\ bbox_pc = "start"
    /\ IF ~bbox_args.exists
         THEN /\ bbox_exit' = 1
              /\ bbox_pc' = "exit"
         ELSE /\ bbox_pc' = "validated"
              /\ UNCHANGED bbox_exit
    /\ UNCHANGED <<bbox_args, bbox_caught, bbox_saved>>

\* lines 390-416: the box is calculated by the method picked, and buffered
BBoxCalculate ==
    /\ UNCHANGED notCli
    /\ bbox_pc = "validated"
    /\ \E calculated \in BOOLEAN :
         LET method == CalculationMethod(bbox_args)
         IN IF method = "unsupported"
              \* sys.exit(1) passes `except Exception`
              THEN /\ bbox_exit' = 1
                   /\ bbox_pc' = "exit"
                   /\ UNCHANGED bbox_caught
            ELSE IF /\ method # "calculate_with_duckdb"
                    /\ StrTruthy(bbox_args.filter)
                    /\ ~FilterParses(bbox_args.filter)
              THEN BBoxFails(Error("JSONDecodeError", "json.loads(args.filter)", NoneStr))
            ELSE IF ~calculated
              \* the file cannot be read, or no feature is left
              THEN BBoxFails(Error("Exception", method, NoneStr))
            ELSE /\ bbox_pc' = "computed"
                 /\ UNCHANGED <<bbox_caught, bbox_exit>>
    /\ UNCHANGED <<bbox_args, bbox_saved>>

\* lines 418-438: the box is printed in the format asked for
BBoxOutput ==
    /\ UNCHANGED notCli
    /\ bbox_pc = "computed"
    /\ \E printed \in BOOLEAN :
         IF ~printed
           THEN BBoxFails(Error("Exception", bbox_args.output_format, NoneStr))
           ELSE /\ bbox_pc' = "printed"
                /\ UNCHANGED <<bbox_caught, bbox_exit>>
    /\ UNCHANGED <<bbox_args, bbox_saved>>

\* lines 440-458: the box is saved when --save-to is given, and main returns
BBoxSave ==
    /\ UNCHANGED notCli
    /\ bbox_pc = "printed"
    /\ \E written \in BOOLEAN :
         IF StrTruthy(bbox_args.save_to) /\ ~written
           THEN BBoxFails(Error("OSError", "open(save_path, 'w')", NoneStr))
                /\ UNCHANGED bbox_saved
           ELSE /\ bbox_saved' = StrTruthy(bbox_args.save_to)
                /\ bbox_exit' = 0
                /\ bbox_pc' = "exit"
                /\ UNCHANGED bbox_caught
    /\ UNCHANGED bbox_args

CliNext ==
    \/ BBoxValidate
    \/ BBoxCalculate
    \/ BBoxOutput
    \/ BBoxSave

\* the utility at rest
CliIdle ==
    /\ bbox_pc = "start"
    /\ bbox_args = [exists |-> FALSE, suffix |-> "", use_duckdb |-> FALSE, where |-> NoneStr,
                    filter |-> NoneStr, buffer |-> 0, output_format |-> "text",
                    save_to |-> NoneStr]
    /\ bbox_caught = NoError
    /\ bbox_saved = FALSE
    /\ bbox_exit = Running

(***************************************************************************)
(* Library calls: ExtractionConfig.get_output_filename (config.py) and the *)
(* box arithmetic of BBoxCalculator (bbox_calculator.py)                   *)
(***************************************************************************)
\* significant bits of the binary floating-point numbers of the model (a
\* Python float has 53), and the longest list of boxes a caller passes
MantissaBits == 3
MaxBoxes == 2

\* the spacing of the floating-point numbers at the magnitude n, in units of
\* the smallest step
RECURSIVE Quantum(_)
Quantum(n) == IF n < 2^MantissaBits THEN 1 ELSE 2 * Quantum(n \div 2)

\* the float that holds the exact result x of an addition or a subtraction:
\* round to nearest, ties to the even mantissa
Float(x) ==
    LET n == IF x < 0 THEN -x ELSE x
        q == Quantum(n)
        lo == (n \div q) * q
        up == 2 * (n - lo) > q \/ (2 * (n - lo) = q /\ (lo \div q) % 2 = 1)
        r == IF up THEN lo + q ELSE lo
    IN IF x < 0 THEN -r ELSE r

\* (mutant) the extension is the format identifier for every format
get_output_filenamePlain(config, format, timestamp) ==
    config.output_prefix \o "_" \o config.job_name \o "_" \o timestamp \o "." \o format

\* ExtractionConfig.get_output_filename (config.py lines 79-91); timestamp is
\* datetime.now().strftime("%Y%m%d_%H%M%S")
get_output_filename(config, format, timestamp) ==
    LET base_name == config.output_prefix \o "_" \o config.job_name \o "_" \o timestamp
    IN IF format = "geojson" THEN base_name \o ".geojson"
       ELSE IF format = "filegdb" THEN base_name \o ".gdb"
       ELSE IF format = "shapefile" THEN base_name \o ".shp"
       ELSE base_name \o "." \o format

\* no call of get_output_filename yet
NoFilename == [format |-> NoneStr, timestamp |-> NoneStr, name |-> NoneStr]

\* BBoxCalculator.expand_bbox (bbox_calculator.py lines 269-285)
expand_bbox(b, buffer) ==
    BoundingBox(Float(b.min_lon - buffer), Float(b.min_lat - buffer),
                Float(b.max_lon + buffer), Float(b.max_lat + buffer))

\* min(...) and max(...) over a generator of numbers
Min(S) == CHOOSE x \in S : \A y \in S : x <= y
Max(S) == CHOOSE x \in S : \A y \in S : x >= y

\* what a box operation hands back: the exception it raised, or its value
\* (None is <<>>, a box b is <<b>>)
Raised(e) == [raised |-> TRUE, error |-> e, ret |-> None]
Returned(ret) == [raised |-> FALSE, error |-> NoError, ret |-> ret]

\* (mutant) the union is the first box of the list
calculate_unionFirst(boxes) ==
    IF boxes = <<>>
      THEN Raised(Error("ValueError", "No bounding boxes provided", NoneStr))
      ELSE Returned(<<boxes[1]>>)

\* BBoxCalculator.calculate_union (lines 287-310)
calculate_union(boxes) ==
    IF boxes = <<>>
      THEN Raised(Error("ValueError", "No bounding boxes provided", NoneStr))
      ELSE Returned(<<BoundingBox(Min({boxes[i].min_lon : i \in DOMAIN boxes}),
                                  Min({boxes[i].min_lat : i \in DOMAIN boxes}),
                                  Max({boxes[i].max_lon : i \in DOMAIN boxes}),
                                  Max({boxes[i].max_lat : i \in DOMAIN boxes}))>>)

\* (mutant) the test for a valid intersection is left out
calculate_intersectionUnchecked(boxes) ==
    IF boxes = <<>>
      THEN Raised(Error("ValueError", "No bounding boxes provided", NoneStr))
      ELSE Returned(<<BoundingBox(Max({boxes[i].min_lon : i \in DOMAIN boxes}),
                                  Max({boxes[i].min_lat : i \in DOMAIN boxes}),
                                  Min({boxes[i].max_lon : i \in DOMAIN boxes}),
                                  Min({boxes[i].max_lat : i \in DOMAIN boxes}))>>)

\* BBoxCalculator.calculate_intersection (lines 312-339)
calculate_intersection(boxes) ==
    IF boxes = <<>>
      THEN Raised(Error("ValueError", "No bounding boxes provided", NoneStr))
      ELSE LET min_lon == Max({boxes[i].min_lon : i \in DOMAIN boxes})
               min_lat == Max({boxes[i].min_lat : i \in DOMAIN boxes})
               max_lon == Min({boxes[i].max_lon : i \in DOMAIN boxes})
               max_lat == Min({boxes[i].max_lat : i \in DOMAIN boxes})
           IN IF min_lon >= max_lon \/ min_lat >= max_lat
                THEN Returned(None)
                ELSE Returned(<<BoundingBox(min_lon, min_lat, max_lon, max_lat)>>)

\* the boxes a caller constructs: BoundingBox checks nothing, so a box may
\* have no extent on an axis (the bounds of a point) or be inverted
Boxes ==
    {BoundingBox(lon[1], lat[1], lon[2], lat[2]) :
        lon \in {0, 1, 10} \X {0, 1, 10}, lat \in {<<0, 1>>, <<1, 1>>, <<3, 10>>}}

\* no box operation yet
NoCalc == [op |-> "none"] @@ Returned(None)

NamesInit ==
    /\ lib_config \in {ExtractionConfig(job_name, DATA_SOURCES["fws_wetlands_fl"],
                                        LOCATIONS["disney_animal_kingdom"], DefaultFormats,
                                        output_prefix, EmptyDict) :
                          job_name \in {"j", "extraction", "wetlands_fl"},
                          output_prefix \in {"p", "data", "extracted_data"}}
    /\ filename = NoFilename

CalcInit ==
    /\ bboxes \in UNION {[1..k -> Boxes] : k \in 0..MaxBoxes}
    /\ buffer_degrees = 0
    /\ calc = NoCalc

\* config.get_output_filename(format)
GetOutputFilename ==
    /\ UNCHANGED notLib
    /\ \E format \in FormatTokens, timestamp \in {"20240131_235959", "20261106_120000"} :
         filename' = [format |-> format, timestamp |-> timestamp,
                      name |-> get_output_filename(lib_config, format, timestamp)]
    /\ UNCHANGED <<lib_config, bboxes, buffer_degrees, calc>>

\* calculator.calculate_union(bboxes)
CalculateUnion ==
    /\ UNCHANGED notLib
    /\ calc' = [op |-> "union"] @@ calculate_union(bboxes)
    /\ UNCHANGED <<lib_config, filename, bboxes, buffer_degrees>>

\* calculator.calculate_intersection(bboxes)
CalculateIntersection ==
    /\ UNCHANGED notLib
    /\ calc' = [op |-> "intersection"] @@ calculate_intersection(bboxes)
    /\ UNCHANGED <<lib_config, filename, bboxes, buffer_degrees>>

\* expanded = calculator.expand_bbox(bboxes[0], d), for a signed offset d
ExpandBBox ==
    /\ UNCHANGED notLib
    /\ bboxes # <<>>
    /\ \E d \in {-3, -1, 1, 3} :
         /\ buffer_degrees' = d
         /\ calc' = [op |-> "expand"] @@ Returned(<<expand_bbox(bboxes[1], d)>>)
    /\ UNCHANGED <<lib_config, filename, bboxes>>

\* calculator.expand_bbox(expanded, -d), on the box the last step returned
ExpandBack ==
    /\ UNCHANGED notLib
    /\ calc.op = "expand"
    /\ calc' = [op |-> "back"] @@ Returned(<<expand_bbox(calc.ret[1], -buffer_degrees)>>)
    /\ UNCHANGED <<lib_config, filename, bboxes, buffer_degrees>>

NamesNext == GetOutputFilename

CalcNext ==
    \/ CalculateUnion
    \/ CalculateIntersection
    \/ ExpandBBox
    \/ ExpandBack

\* no file name is asked for
NamesIdle ==
    /\ lib_config = NoConfig
    /\ filename = NoFilename

\* no box operation is in play
CalcIdle ==
    /\ bboxes = <<>>
    /\ buffer_degrees = 0
    /\ calc = NoCalc

\* no library call is in play
LibIdle == NamesIdle /\ CalcIdle

\* the exporter at rest
ExportIdle ==
    /\ epc = "idle"
    /\ formats = <<>>
    /\ fidx = 1
    /\ results = EmptyDict
    /\ attempts = <<>>
    /\ disk = EmptyDict
    /\ ecall = NoCall

\* the fetcher at rest
FetchIdle ==
    /\ fpc = "idle"
    /\ api_config = ("type" :> "arcgis") @@ ("params" :> EmptyDict)
    /\ bbox = None
    /\ script = <<[kind |-> "fc", inner |-> "-", n |-> 0, next |-> FALSE]>>
    /\ params = EmptyDict
    /\ offset = 0
    /\ limit = 0
    /\ next_url = None
    /\ all_features = <<>>
    /\ requests = <<>>
    /\ fresult = <<>>

(***************************************************************************)
(* Specifications: one per component, the other components at rest         *)
(***************************************************************************)
InitFetch == FetchInit /\ SessionIdle /\ ExportIdle /\ UploadIdle /\ JobIdle /\ CliIdle /\ LibIdle

SpecFetch == InitFetch /\ [][FetchNext]_vars

InitSession == SessionInit /\ FetchIdle /\ ExportIdle /\ UploadIdle /\ JobIdle /\ CliIdle /\ LibIdle

SpecSession == InitSession /\ [][SessionNext]_vars

InitExport == ExportInit /\ FetchIdle /\ SessionIdle /\ UploadIdle /\ JobIdle /\ CliIdle /\ LibIdle

SpecExport == InitExport /\ [][ExportNext]_vars

InitUpload == UploadInit /\ FetchIdle /\ SessionIdle /\ ExportIdle /\ JobIdle /\ CliIdle /\ LibIdle

SpecUpload == InitUpload /\ [][UploadNext]_vars

InitJob == JobInit /\ FetchIdle /\ SessionIdle /\ ExportIdle /\ UploadIdle /\ CliIdle
             /\ LibIdle

SpecJob == InitJob /\ [][JobNext]_vars

InitCli == CliInit /\ FetchIdle /\ SessionIdle /\ ExportIdle /\ UploadIdle /\ JobIdle /\ LibIdle

SpecCli == InitCli /\ [][CliNext]_vars

InitNames == NamesInit /\ CalcIdle /\ FetchIdle /\ SessionIdle /\ ExportIdle /\ UploadIdle
             /\ JobIdle /\ CliIdle

SpecNames == InitNames /\ [][NamesNext]_vars

InitCalc == CalcInit /\ NamesIdle /\ FetchIdle /\ SessionIdle /\ ExportIdle /\ UploadIdle
            /\ JobIdle /\ CliIdle

SpecCalc == InitCalc /\ [][CalcNext]_vars

(***************************************************************************)
(* API fetcher: claims                                                     *)
(***************************************************************************)
ApiType == DictGet(api_config, "type", "")

\* the responses read so far
Consumed == SubSeq(script, 1, Len(requests))

RECURSIVE ConcatFeatures(_)
\* the features of pages 1..k, in page order
ConcatFeatures(k) ==
    IF k = 0 THEN <<>> ELSE ConcatFeatures(k - 1) \o FeaturesOf(k, script[k].n)

\* every response read so far is a well-formed GeoJSON page
AllGeoJSON == \A i \in 1..Len(requests) : script[i].kind = "fc"

\* C1: ArcGIS-style fetch with page size L: requests carry resultOffset 0, L,
\* 2L, ... in that order; no request follows the first page with zero or fewer
\* than L features, the fetch then being over; it returns exactly the features
\* of the pages fetched, in page order.
C1_OffsetPagination ==
    (ApiType = "arcgis" /\ fpc \in {"arcgis", "done"} /\ AllGeoJSON) =>
        /\ \A i \in 1..Len(requests) :
             requests[i].params["resultOffset"] = (i - 1) * limit
        /\ \A i \in 1..Len(requests) :
             script[i].n < limit => (i = Len(requests) /\ fpc = "done")
        /\ fpc = "done" => fresult = ConcatFeatures(Len(requests))

\* C28: the ArcGIS-style fetch terminates for every response the HTTP helper
\* can hand back, including a parsed frame without a 'body' column (what
\* download_with_http_client returns when the body is a JSON list or JSON
\* object): it never keeps re-issuing the request for the same offset.
C28_NoRepeatedOffset ==
    ApiType = "arcgis" =>
        \A i, j \in 1..Len(requests) :
            i < j => requests[i].params["resultOffset"] # requests[j].params["resultOffset"]

\* C30: download_spatial_api leaves the caller's api_config, including its
\* nested 'params' mapping, unchanged for every API type (arcgis, wfs, ogcapi,
\* generic) and with or without a bounding box, so two successive calls with
\* the same api_config object and different bounding boxes send only the
\* second box's parameters on the second call.
C30_ConfigUnchanged == [][api_config' = api_config]_vars

\* the service's script is a chain of N GeoJSON pages: pages 1..N-1 carry a
\* link with rel 'next', page N carries none
NextChain ==
    \A i \in 1..Len(script) :
        script[i].kind = "fc" /\ (script[i].next <=> i < Len(script))

\* C2: generic-paginated (OGC) fetch over a chain of N pages: exactly N
\* requests are made, the first to the items URL with the query parameters,
\* each later one to the previous page's next href without query parameters,
\* and the result is the concatenation of the N pages' features.
C2_NextLinkChain ==
    (ApiType = "ogcapi" /\ NextChain /\ fpc = "done") =>
        /\ Len(requests) = Len(script)
        /\ requests[1] = Request(ItemsUrl, OgcParams(api_config, bbox))
        /\ \A i \in 2..Len(requests) : requests[i] = Request(Href(i - 1), EmptyDict)
        /\ fresult = ConcatFeatures(Len(script))

\* a response body that is not JSON
Malformed(resp) == resp.kind \in {"notjson", "empty"}

\* C3: in every fetch variant, once a response with a malformed or non-JSON
\* body has been read the fetch has not raised: it is over and has returned the
\* features accumulated from the pages before.
C3_MalformedBodyTolerated ==
    (requests # <<>> /\ Malformed(script[Len(requests)])) =>
        (fpc = "done" /\ fresult = all_features)

(***************************************************************************)
(* Query-engine sessions: claims                                           *)
(***************************************************************************)
\* C4: every session that was opened is closed by the time the call or
\* with-block that opened it has exited, on every exit path.
C4_SessionClosedOnExit ==
    \A c \in 1..Len(sessions) : sessions[c].scope = "exited" => ~sessions[c].open

\* DuckDBSpatialExtractor.connect raised after duckdb.connect had succeeded,
\* that is, on an extension: the session it opened is the one disconnect
\* never got to close
ExtractorExtensionFailure == xpc = "raised" /\ xconn # 0 /\ sessions[xconn].open

\* C12: at session start a failure to load the spatial extension makes
\* connect raise, while a failure to load any other extension (httpfs, zipfs,
\* http_client, json) is logged and connect completes with an open session.
C12_OnlySpatialFatal ==
    /\ xpc = "body" => "spatial" \notin extFail
    /\ dpc = "body" => "spatial" \notin extFail
    /\ ExtractorExtensionFailure => "spatial" \in extFail

(***************************************************************************)
(* Exporter: claims                                                        *)
(***************************************************************************)
\* the tokens the batch has passed so far
Handled == SubSeq(formats, 1, fidx - 1)

AttemptFormats == [i \in 1..Len(attempts) |-> attempts[i].format]

\* C7: batch export over any list of format tokens: a token outside the
\* enumerated set has no entry in the mapping, and the supported tokens are
\* attempted, all of them and in list order, wherever the unsupported ones sit.
C7_UnsupportedSkipped ==
    (epc \in {"loop", "done"}) =>
        /\ \A i \in 1..Len(formats) :
             ~IsSupported(formats[i]) => formats[i] \notin DOMAIN results
        /\ AttemptFormats = SelectSeq(Handled, IsSupported)
        /\ epc = "done" => fidx = Len(formats) + 1

\* a supported token is tried after an unsupported one
C7_Witness ==
    /\ epc = "done"
    /\ Len(formats) >= 2
    /\ ~IsSupported(formats[1])
    /\ IsSupported(formats[2])
    /\ Len(attempts) >= 1

\* the last attempt made for format f
LastAttempt(f) ==
    attempts[CHOOSE i \in 1..Len(attempts) :
                /\ attempts[i].format = f
                /\ \A j \in (i + 1)..Len(attempts) : attempts[j].format # f]

SupportedListed == {formats[i] : i \in {j \in 1..Len(formats) : IsSupported(formats[j])}}

\* C8 as claimed: in batch export a supported format whose export fails has no
\* entry in the returned mapping, every format that succeeded maps to its
\* output path, and a failure never stops the later formats.
C8_FailedFormatAbsent ==
    (epc = "done") =>
        /\ Len(attempts) = Len(SelectSeq(formats, IsSupported))
        /\ \A f \in SupportedListed :
             IF LastAttempt(f).ok
               THEN f \in DOMAIN results /\ results[f] = LastAttempt(f).path
               ELSE f \notin DOMAIN results

\* C8 amended: a supported format whose export fails keeps an entry in the
\* mapping, with None in place of a path; every format that succeeded maps to
\* its output path (the last attempt deciding for a token listed twice), and a
\* failure never stops the later formats.
C8_FailedFormatMapsToNone ==
    (epc = "done") =>
        /\ Len(attempts) = Len(SelectSeq(formats, IsSupported))
        /\ DOMAIN results = SupportedListed
        /\ \A f \in SupportedListed :
             results[f] = IF LastAttempt(f).ok THEN LastAttempt(f).path ELSE None

\* a format fails and a later one is exported
C8_Witness ==
    /\ epc = "done"
    /\ Len(attempts) = 2
    /\ ~attempts[1].ok
    /\ attempts[2].ok
    /\ attempts[1].format # attempts[2].format

IsGdbCall == ecall.format # "" /\ Lower(ecall.format) = "filegdb"

\* C9: FileGDB export: when the primary-driver write fails the write is retried
\* exactly once, with the fallback driver, on the same coerced path and layer;
\* success is reported iff one of the two writes succeeded; nothing is raised.
C9_FallbackOnce ==
    IsGdbCall =>
        LET w == ecall.writes
        IN /\ Len(w) <= 2
           /\ Len(w) >= 1 =>
                /\ w[1].driver = "FileGDB"
                /\ w[1].path = CoercePath(ecall.output_path)
                /\ w[1].layer = LayerOrDefault(ecall.layer_name)
           /\ (Len(w) >= 1 /\ ~w[1].ok) =>
                /\ Len(w) = 2
                /\ w[2].driver = "OpenFileGDB"
                /\ w[2].path = w[1].path
                /\ w[2].layer = w[1].layer
           /\ (Len(w) = 2) => ~w[1].ok
           /\ ecall.ret <=> (\E i \in 1..Len(w) : w[i].ok)
           /\ ~ecall.raised

\* the primary write failed and the fallback write succeeded
C9_Witness ==
    /\ IsGdbCall
    /\ Len(ecall.writes) = 2
    /\ ~ecall.writes[1].ok
    /\ ecall.writes[2].ok
    /\ ecall.ret

\* C10: FileGDB export: the target path ends in '.gdb' (the given path, with
\* '.gdb' appended when it lacked it), and after a successful export the
\* container at that path holds the newly written layer, named 'data' unless
\* a layer name was given, and nothing else: nothing of a previous container.
C10_ContainerReplaced ==
    (IsGdbCall /\ ecall.ret) =>
        LET w == ecall.writes[Len(ecall.writes)]
        IN /\ EndsWithGdb(w.path)
           /\ w.path = IF EndsWithGdb(ecall.output_path)
                         THEN ecall.output_path
                         ELSE ecall.output_path \o <<".gdb">>
           /\ w.layer = IF ecall.layer_name \in {"None", ""} THEN "data"
                        ELSE ecall.layer_name
           /\ Exists(disk, w.path)
           /\ disk[w.path] = {w.layer}

\* a container was there before, the given path lacked '.gdb', the export succeeded
C10_Witness ==
    /\ IsGdbCall
    /\ ecall.ret
    /\ ecall.existed
    /\ ~EndsWithGdb(ecall.output_path)
    /\ ecall.layer_name = "roads"

(***************************************************************************)
(* Uploader: claims                                                        *)
(***************************************************************************)
\* a folder holds at most one file per name
OneFilePerName ==
    \A f \in Folders : \A it1, it2 \in box[f] :
        (it1.type = "file" /\ it2.type = "file" /\ it1.name = it2.name) => it1 = it2

\* an upload_file call has been made
Uploaded == ucall.path # None

\* C5 as claimed: an upload_file call (of a local file that exists) performs
\* exactly one of "replace the contents of an existing file" and "create a new
\* file", replacing if and only if the destination folder contains a file-type
\* item of the same name; a folder holds at most one file per name.
C5_ReplaceIffPresent ==
    (Uploaded /\ ucall.exists) =>
        /\ ucall.op \in {"replace", "create"}
        /\ ucall.op = "replace" <=> ucall.present
        /\ OneFilePerName

\* C5 amended: an upload_file call of a local file that exists tries exactly
\* one remote operation: it replaces the contents of the existing file if and
\* only if the folder listing succeeded and shows a file-type item of the same
\* name, and tries to create a new file otherwise; a create under a name a
\* file of the folder already has (the listing having failed) is refused by
\* the remote; a call of a missing local file tries nothing.  A folder holds
\* at most one file per name.
C5_ReplaceIffListed ==
    Uploaded =>
        /\ ucall.op = "none" <=> ~ucall.exists
        /\ ucall.op = "replace" <=> (ucall.exists /\ ucall.listed /\ ucall.present)
        /\ ucall.op = "create" <=> (ucall.exists /\ ~(ucall.listed /\ ucall.present))
        /\ (ucall.op = "create" /\ ucall.present) => (~ucall.ok /\ ucall.ret = NoId)
        /\ OneFilePerName

\* a file this run created is replaced by a later upload of the same name
C5_Witness ==
    /\ Uploaded
    /\ ucall.op = "replace"
    /\ ucall.ok
    /\ ucall.ret >= 3

\* the entries of file_paths handled so far whose path exists locally
RECURSIVE Attempted(_)
Attempted(k) ==
    IF k = 0 THEN <<>>
    ELSE IF Truthy(file_paths[k][2]) /\ file_paths[k][2] \in DOMAIN local
      THEN Append(Attempted(k - 1), k)
      ELSE Attempted(k - 1)

\* C6: batch upload returns a mapping with the keys of its input; an item
\* whose path is absent or missing, or whose upload fails, has None for a
\* file id; a failed item never keeps the remaining ones from being attempted,
\* and the batch never raises.
C6_BatchSameKeys ==
    /\ upc # "raised"
    /\ (upc \in {"batch", "done"}) =>
        LET tried == Attempted(uidx - 1)
        IN /\ DOMAIN uresults = {file_paths[i][1] : i \in 1..(uidx - 1)}
           /\ Len(ulog) = Len(tried)
           /\ \A i \in 1..(uidx - 1) :
                (\A j \in 1..Len(tried) : tried[j] # i) => uresults[file_paths[i][1]] = NoId
           /\ \A j \in 1..Len(tried) :
                /\ uresults[file_paths[tried[j]][1]] = ulog[j].ret
                /\ ~ulog[j].ok => ulog[j].ret = NoId
           /\ upc = "done" => uidx = Len(file_paths) + 1

\* the first item's upload fails and the second item is uploaded
C6_Witness ==
    /\ upc = "done"
    /\ Len(file_paths) = 2
    /\ Len(ulog) = 2
    /\ ~ulog[1].ok
    /\ uresults[file_paths[1][1]] = NoId
    /\ uresults[file_paths[2][1]] # NoId

\* the passes of upload_multiple's loop so far that archived a directory and
\* went on to upload the archive
ZippedUploads ==
    LET tried == Attempted(uidx - 1)
    IN {j \in 1..Len(tried) :
          /\ j <= Len(ulog)
          /\ file_paths[tried[j]][1] = "filegdb"
          /\ local[file_paths[tried[j]][2]] = "dir"
          /\ ulog[j] # NoUpload}

\* C15: upload_directory_as_zip makes the archive of the directory inside a
\* temporary location scoped to the call, and when the call has returned
\* neither that location nor the archive exists any more, whether archiving
\* succeeded or failed and whether the upload succeeded or failed.
C15_ArchiveNotLeftBehind ==
    /\ \A p \in tmpfiles \cup DOMAIN local : ~Under(p, TempDir)
    /\ (upc \in {"batch", "done"}) =>
         \A j \in ZippedUploads :
            /\ Under(ulog[j].path, TempDir)
            /\ ulog[j].exists
            /\ ulog[j].path = ArchivePath(ulog[j].path)

\* a directory was archived, its archive was uploaded, and a later directory
\* pass of the same kind failed or succeeded with nothing left behind
C15_Witness ==
    /\ upc = "done"
    /\ \E j \in ZippedUploads : ulog[j].ok /\ Under(ulog[j].path, TempDir)
    /\ tmpfiles = {}

\* C16 as claimed: metadata is attached only after the file was uploaded
\* successfully, and only when a metadata-template key is configured and a
\* non-empty mapping was supplied; it is attached by updating the existing
\* metadata record when the file has one and by creating one otherwise, never
\* both.
C16_UpdateIffRecordExists ==
    Uploaded =>
        /\ ucall.mop.op \in {"none", "update", "create"}
        /\ ucall.mop.op # "none" => (ucall.ok /\ template_key /\ Truthy(ucall.mop.with))
        /\ ucall.mop.op = "update" => ucall.mop.had
        /\ ucall.mop.op = "create" => ~ucall.mop.had

\* C16 amended: metadata is attached only after the file was uploaded
\* successfully, and only when a metadata-template key is configured and a
\* non-empty mapping was supplied; the existing record is updated when the
\* lookup of the file's record succeeds and finds one, and a record is created
\* otherwise, a failed lookup counting as "no record"; never both.
C16_UpdateIffRecordFound ==
    Uploaded =>
        /\ ucall.mop.op \in {"none", "update", "create"}
        /\ ucall.mop.op # "none" <=> (ucall.ok /\ template_key /\ Truthy(ucall.mop.with))
        /\ ucall.mop.op = "update" => (ucall.mop.had /\ ucall.mop.looked)
        /\ ucall.mop.op = "create" => ~(ucall.mop.had /\ ucall.mop.looked)

\* a file that has a metadata record is replaced and its record is updated
C16_Witness ==
    /\ Uploaded
    /\ ucall.ok
    /\ ucall.op = "replace"
    /\ ucall.mop.op = "update"
    /\ ucall.mop.had

(***************************************************************************)
(* Extraction job: claims                                                  *)
(***************************************************************************)
\* C11: when the bounded spatial read matches zero rows, the extraction hands
\* the caller an empty table, not an error and not an absent value; a query
\* error is raised, so the two outcomes can be told apart.
C11_ZeroRowsEmptyTable ==
    /\ (query.kind = "rows" /\ query.n = 0) => (gdf = Table(0) /\ caught = NoError)
    /\ query.kind = "error" => (gdf = Unset /\ caught # NoError)

\* main has built its configuration, or failed to
Configured == jpc # "start"

\* the job is configured on the command line, or by a configuration file
OnCommandLine == ~StrTruthy(args.config)
FromFile == StrTruthy(args.config) /\ config_data.readable

\* C13: on the command-line path the resolved DataSource carries the layer and
\* the geometry-column override whenever they are supplied, for a predefined
\* source name as for a literal URL.
C13_OverridesCarried ==
    (OnCommandLine /\ jconfig # NoConfig) =>
        /\ StrTruthy(args.layer) => jconfig.data_source.layer_name = args.layer
        /\ StrTruthy(args.geom_column) =>
               jconfig.data_source.geometry_column = args.geom_column

\* the configuration file gives data_source as a name the registry lacks
UnregisteredInFile ==
    /\ FromFile
    /\ "data_source" \in DOMAIN config_data.data
    /\ config_data.data["data_source"].t = "str"
    /\ config_data.data["data_source"].items[1] \notin DOMAIN DATA_SOURCES

\* the command line gives --source as a string the registry lacks
UnregisteredOnLine ==
    OnCommandLine /\ StrTruthy(args.source) /\ args.source \notin DOMAIN DATA_SOURCES

\* the error that names the identifier the file gives
UnknownSourceError ==
    Error("ValueError", "Unknown data source: ", config_data.data["data_source"].items[1])

\* on the command line an unregistered string is no error of its own and
\* becomes the URL of a 'custom' DataSource
CustomSourceOnLine ==
    (Configured /\ UnregisteredOnLine) =>
        /\ caught.message # "Unknown data source: "
        /\ caught.names # args.source
        /\ (/\ (args.location \in DOMAIN LOCATIONS \/ Truthy(args.bbox))
            /\ JsonLoadsMetadata(args.metadata).value.t = "dict")
             => jconfig # NoConfig
        /\ jconfig # NoConfig =>
             /\ jconfig.data_source.name = "custom"
             /\ jconfig.data_source.url = args.source

\* C14 as claimed: in a configuration file a data_source name that is not in
\* the registry is never accepted: load_config_from_file fails with an error
\* naming that identifier and returns no ExtractionConfig; on the command line
\* the same string is never an error and becomes the URL of a 'custom'
\* DataSource.
C14_UnknownNameNamed ==
    /\ (Configured /\ UnregisteredInFile) =>
         (jconfig = NoConfig /\ caught = UnknownSourceError)
    /\ CustomSourceOnLine

\* the file's bounding_box entry is one load_config_from_file can parse
BoundingBoxParses ==
    \/ "bounding_box" \notin DOMAIN config_data.data
    \/ config_data.data["bounding_box"].t = "dict"
    \/ IsList4(config_data.data["bounding_box"])

\* C14 amended: in a configuration file a data_source name that is not in the
\* registry is never accepted: load_config_from_file raises and returns no
\* ExtractionConfig, and the job ends with status 1.  The error names that
\* identifier when the file's bounding_box entry is absent, an object or a
\* four-element list; an entry of another shape fails first, while the
\* bounding box is parsed, with an error that does not name the data source.
\* On the command line the same string is no error of its own and becomes the
\* URL of a 'custom' DataSource.
C14_UnknownNameRejected ==
    /\ (Configured /\ UnregisteredInFile) =>
         /\ jconfig = NoConfig
         /\ exit_status = 1
         /\ BoundingBoxParses => caught = UnknownSourceError
         /\ ~BoundingBoxParses => (caught.type = "AttributeError" /\ caught.names = NoneStr)
    /\ CustomSourceOnLine

\* a file with an unregistered source name and a well-formed bounding box has
\* been rejected by the error that names the source
C14_Witness ==
    /\ Configured
    /\ UnregisteredInFile
    /\ "bounding_box" \in DOMAIN config_data.data
    /\ IsList4(config_data.data["bounding_box"])
    /\ caught = UnknownSourceError
    /\ exit_status = 1

\* the remote-storage configuration has been looked for: main logs one of
\* these two messages right after BoxConfig.from_env
UploadReached ==
    jlog \cap {"Box configuration not found in environment variables",
               "Uploading to Box..."} # {}

\* every required variable of the environment is set and not empty
RequiredSet(env) == \A name \in BoxRequired : name \in DOMAIN env /\ env[name] # ""

\* C22: BoxConfig.from_env returns 'no configuration' whenever at least one of
\* the four required variables is unset or empty, and a fully populated
\* BoxConfig when all four are set; it never returns a partially filled
\* object, and the optional metadata-template key never affects which of the
\* two is returned.  The job creates its uploader from the populated object
\* only.
C22_AllOrNothing ==
    UploadReached =>
        LET box_config == from_env(box_env)
            with_key == from_env(box_env @@ ("BOX_METADATA_TEMPLATE_KEY" :> "value"))
            without_key == from_env([n \in DOMAIN box_env \ {"BOX_METADATA_TEMPLATE_KEY"}
                                       |-> box_env[n]])
        IN /\ ~RequiredSet(box_env) => (box_config = NoBoxConfig /\ ~uploader)
           /\ RequiredSet(box_env) =>
                /\ box_config.set /\ uploader
                /\ box_config.client_id = box_env["BOX_CLIENT_ID"]
                /\ box_config.client_secret = box_env["BOX_CLIENT_SECRET"]
                /\ box_config.access_token = box_env["BOX_ACCESS_TOKEN"]
                /\ box_config.folder_id = box_env["BOX_FOLDER_ID"]
           /\ with_key.set = box_config.set /\ without_key.set = box_config.set

\* the upload was asked for in an environment that sets three of the four
\* required variables and the optional key, and no uploader was created
C22_Witness ==
    /\ UploadReached
    /\ Cardinality({n \in BoxRequired : n \in DOMAIN box_env /\ box_env[n] # ""}) = 3
    /\ "BOX_METADATA_TEMPLATE_KEY" \in DOMAIN box_env
    /\ from_env(box_env) = NoBoxConfig
    /\ ~uploader

\* the batch was handed to the uploader, and at least one file was uploaded
BatchUploaded == jpc \in {"uploaded", "exit"} /\ uploaded_to # EmptyDict

\* C29: in the extraction job, when --box-folder-name is given and
\* create_folder returns a folder id, every file of the batch is uploaded into
\* that folder and none into the configured default folder; when no
\* sub-folder name is given, or folder creation fails, every file goes to the
\* configured default folder.
C29_FilesInChosenFolder ==
    BatchUploaded =>
        /\ \A f \in DOMAIN uploaded_to : uploaded_to[f] = upload_folder_id
        /\ upload_folder_id # from_env(box_env).folder_id =>
              (StrTruthy(args.box_folder_name) /\ upload_folder_id = "subfolder")
        /\ ~StrTruthy(args.box_folder_name) =>
              upload_folder_id = from_env(box_env).folder_id

\* C17: when upload is requested and a required remote-storage variable is
\* absent, only the upload path is disabled: extraction and export have run
\* to completion, no remote-storage client is created, and the process does
\* not end with a failure status on account of the missing configuration.
C17_MissingBoxConfigTolerated ==
    (args.upload_to_box /\ UploadReached /\ ~from_env(box_env).set) =>
        /\ gdf.kind = "table"
        /\ DOMAIN export_results = Range(jconfig.output_formats)
        /\ ~uploader
        /\ exit_status \in {Running, 0}

\* C18: every error raised while building the configuration, extracting,
\* exporting or uploading that no component handled is caught at the top of
\* main and the process ends with a non-zero status; the job reaches
\* "completed successfully" with status 0 only when no such error occurred.
C18_ErrorsEndInFailure ==
    /\ caught # NoError =>
         (jpc = "exit" /\ exit_status \notin {Running, 0} /\ "Job failed" \in jlog)
    /\ "Job completed successfully" \in jlog => (caught = NoError /\ exit_status = 0)
    /\ exit_status = 0 => caught = NoError

\* the export went through and the connection to Box then failed
C18_Witness ==
    /\ caught = Error("Exception", "Failed to connect to Box", NoneStr)
    /\ export_results # EmptyDict
    /\ uploader
    /\ exit_status = 1

\* every coordinate of the box is defined
Defined(b) == \A c \in {b.min_lon, b.min_lat, b.max_lon, b.max_lat} : c # NoneStr

\* the job's configuration gives no bounding box
LacksBBoxOnLine ==
    OnCommandLine /\ args.location \notin DOMAIN LOCATIONS /\ ~Truthy(args.bbox)
LacksBBoxInFile == FromFile /\ "bounding_box" \notin DOMAIN config_data.data

\* C20: a job configuration without the required bounding box is rejected with
\* a configuration error on both paths: on the command line when neither a
\* known location nor --bbox is given, in a configuration file when
\* bounding_box is absent; no ExtractionConfig with an undefined bounding box
\* is ever produced.
C20_MissingBBoxRejected ==
    /\ (Configured /\ (LacksBBoxOnLine \/ LacksBBoxInFile)) =>
         (jconfig = NoConfig /\ exit_status \in {1, 2})
    /\ jconfig # NoConfig => Defined(jconfig.bounding_box)

\* the read gave rows with a geometry column, and to_geodataframe has run on
\* them
Converted == query.kind = "rows" /\ query.geom = "found" /\ query.n > 0

\* the three forms of a geometry value the normalization knows
GeometryForms == {"geometry", "wkb", "wkt"}

\* C27 as claimed: geometry normalization interprets each value of the
\* geometry column in order: an already-structured geometry passes through
\* unchanged, otherwise binary (WKB) decoding is tried, otherwise text (WKT)
\* decoding; the conversion returns a table only if every row's value was
\* interpreted, and a single value that matches none of the three fails the
\* whole conversion with no row skipped.
C27_EachValueInterpreted ==
    Converted =>
        /\ (\A i \in DOMAIN query.column : query.column[i] \in GeometryForms) =>
              gdf.kind = "table"
        /\ gdf.kind = "table" =>
              /\ gdf.rows = query.n
              /\ \A i \in DOMAIN query.column :
                   query.column[i] \in GeometryForms /\ gdf.geometry[i] = "geometry"
        /\ (\E i \in DOMAIN query.column : query.column[i] \notin GeometryForms) =>
              (gdf = Unset /\ caught # NoError)

\* every value of the column that is not None has the form the column is read
\* in: geometry objects when the first row holds one, else WKB throughout or
\* WKT throughout
OneForm ==
    LET present == {query.column[i] : i \in DOMAIN query.column} \ {"none"}
    IN IF query.column[1] = "geometry"
         THEN present = {"geometry"}
         ELSE present \subseteq {"wkb"} \/ present \subseteq {"wkt"}

\* C27 amended: geometry normalization reads the column in one form, decided
\* for the column as a whole: when the first row holds an already-structured
\* geometry the column passes through unchanged; otherwise binary (WKB)
\* decoding is tried on every value, and if any value fails it, text (WKT)
\* decoding on every value; a missing value (None) is not decoded and gives a
\* row without geometry.  The conversion returns a table exactly when every
\* value that is not missing has the column's form, with one row per input
\* row; otherwise the whole conversion fails with no row skipped, in
\* particular for a single value that matches none of the three forms.
C27_ColumnInterpreted ==
    Converted =>
        /\ gdf.kind = "table" <=> OneForm
        /\ gdf.kind = "table" =>
              /\ gdf.rows = query.n
              /\ gdf.geometry = [i \in DOMAIN query.column |->
                                   IF query.column[i] = "none" THEN "none" ELSE "geometry"]
        /\ ~OneForm => (gdf = Unset /\ caught # NoError /\ exit_status = 1)
        /\ (\E i \in DOMAIN query.column : query.column[i] = "text") => ~OneForm

\* a column of a missing value and a WKT text came back as a table of two
\* rows, after WKB decoding failed
C27_Witness ==
    /\ Converted
    /\ query.column = <<"none", "wkt">>
    /\ gdf.kind = "table"
    /\ gdf.geometry = <<"none", "geometry">>

\* the command line gives a source and a bounding box, and a --metadata string
\* that json.loads rejects or that json.loads does not turn into a mapping
UnusableMetadata ==
    /\ OnCommandLine /\ StrTruthy(args.source) /\ ~LacksBBoxOnLine
    /\ StrTruthy(args.metadata)
    /\ LET loaded == JsonLoadsMetadata(args.metadata)
       IN loaded.raised \/ loaded.value.t # "dict"

\* C21: a --metadata string that cannot be used as a metadata mapping is never
\* fatal: create_extraction_config logs a warning, continues as if the user
\* had supplied empty metadata, and still returns an ExtractionConfig.
C21_UnusableMetadataTolerated ==
    (Configured /\ UnusableMetadata) =>
        /\ caught = NoError
        /\ MetadataWarning \in jlog
        /\ jconfig # NoConfig
        /\ jconfig # NoConfig =>
               DOMAIN jconfig.metadata = {"extraction_date", "source", "bbox"}

(***************************************************************************)
(* bbox command-line utility: claims                                       *)
(***************************************************************************)
\* the input file is there, the SQL-engine path is not selected and the
\* file's extension is none of those the utility reads
UnsupportedInput ==
    /\ bbox_args.exists
    /\ ~(bbox_args.use_duckdb \/ StrTruthy(bbox_args.where))
    /\ LowerSuffix(bbox_args.suffix) \notin {".geojson", ".gpkg", ".shp", ".dbf"}

\* C19: the bbox utility exits with code 1 when the input file is missing,
\* when the file extension is unsupported (and the SQL-engine path is not
\* selected), and when an exception is caught during computation, output or
\* saving; in every other run it exits with code 0.
C19_ExitCodes ==
    /\ bbox_pc = "exit" <=> bbox_exit # Running
    /\ bbox_exit # Running =>
         /\ bbox_exit \in {0, 1}
         /\ bbox_exit = 1 <=>
              (~bbox_args.exists \/ UnsupportedInput \/ bbox_caught # NoError)
         /\ (StrTruthy(bbox_args.save_to) /\ bbox_exit = 0) => bbox_saved

\* a file with an extension the utility does not read ends the run with code 1
\* without any exception being caught
C19_Witness ==
    /\ UnsupportedInput
    /\ bbox_caught = NoError
    /\ bbox_exit = 1

(***************************************************************************)
(* Library calls: claims                                                   *)
(***************************************************************************)
\* C23: for every format identifier, get_output_filename returns
\* '{prefix}_{job_name}_{timestamp}.{ext}' where ext is 'gdb' for filegdb,
\* 'shp' for shapefile, 'geojson' for geojson and the format identifier itself
\* otherwise; for each of the six enumerated formats this extension equals the
\* extension the batch exporter appends to the base name.
C23_FilenameExtension ==
    filename # NoFilename =>
        LET base_name == lib_config.output_prefix \o "_" \o lib_config.job_name \o "_"
                         \o filename.timestamp
            ext == CASE filename.format = "filegdb" -> "gdb"
                     [] filename.format = "shapefile" -> "shp"
                     [] filename.format = "geojson" -> "geojson"
                     [] OTHER -> filename.format
        IN /\ filename.name = base_name \o "." \o ext
           /\ filename.format \in DOMAIN SUPPORTED_FORMATS =>
                filename.name = base_name \o SUPPORTED_FORMATS[filename.format].extension

\* the name asked for filegdb ends in .gdb
C23_Witness ==
    /\ lib_config.output_prefix = "p" /\ lib_config.job_name = "j"
    /\ filename.format = "filegdb"
    /\ filename.name = "p_j_20240131_235959.gdb"

\* C24: calculate_union of any non-empty list of boxes returns a box whose min
\* on each axis is less than or equal to every input box's min and whose max
\* on each axis is greater than or equal to every input box's max; the union
\* of a single box equals that box; an empty list fails with an error.
C24_UnionCovers ==
    calc.op = "union" =>
        /\ bboxes = <<>> =>
             (calc.raised /\ calc.error.type = "ValueError" /\ calc.ret = None)
        /\ bboxes # <<>> =>
             /\ ~calc.raised /\ calc.ret # None
             /\ \A i \in DOMAIN bboxes :
                  /\ calc.ret[1].min_lon <= bboxes[i].min_lon
                  /\ calc.ret[1].min_lat <= bboxes[i].min_lat
                  /\ calc.ret[1].max_lon >= bboxes[i].max_lon
                  /\ calc.ret[1].max_lat >= bboxes[i].max_lat
        /\ Len(bboxes) = 1 => calc.ret = <<bboxes[1]>>

\* the union of two boxes is neither of them
C24_Witness ==
    /\ calc.op = "union"
    /\ Len(bboxes) = 2
    /\ ~calc.raised
    /\ calc.ret[1] # bboxes[1] /\ calc.ret[1] # bboxes[2]

\* the two boxes of the list share no point
Disjoint ==
    \/ bboxes[1].max_lon < bboxes[2].min_lon \/ bboxes[2].max_lon < bboxes[1].min_lon
    \/ bboxes[1].max_lat < bboxes[2].min_lat \/ bboxes[2].max_lat < bboxes[1].min_lat

\* the box has an extent on both axes
HasExtent(b) == b.min_lon < b.max_lon /\ b.min_lat < b.max_lat

\* the intersection of two boxes has been asked for
IntersectedTwo == calc.op = "intersection" /\ Len(bboxes) = 2

\* C25 as claimed: calculate_intersection of two disjoint boxes returns 'no
\* intersection' (not an error), and the intersection of two identical boxes
\* returns that box unchanged, for every box a caller can construct.
C25_IdenticalUnchanged ==
    IntersectedTwo =>
        /\ ~calc.raised
        /\ Disjoint => calc.ret = None
        /\ bboxes[1] = bboxes[2] => calc.ret = <<bboxes[1]>>

\* C25 amended: calculate_intersection of two disjoint boxes returns 'no
\* intersection' (not an error); the intersection of two identical boxes
\* returns that box unchanged when the box has an extent on both axes
\* (min < max), and 'no intersection' when min >= max on either axis, as for
\* the bounds of a single point.
C25_IdenticalWithExtentUnchanged ==
    IntersectedTwo =>
        /\ ~calc.raised
        /\ Disjoint => calc.ret = None
        /\ (bboxes[1] = bboxes[2] /\ HasExtent(bboxes[1])) => calc.ret = <<bboxes[1]>>
        /\ (bboxes[1] = bboxes[2] /\ ~HasExtent(bboxes[1])) => calc.ret = None

\* two identical boxes with an extent were intersected and the box came back
C25_Witness ==
    /\ IntersectedTwo
    /\ bboxes[1] = bboxes[2]
    /\ HasExtent(bboxes[1])
    /\ calc.ret = <<bboxes[1]>>

\* C26: for every box b and every signed offset d,
\* expand_bbox(expand_bbox(b, d), -d) equals b, and expand_bbox never rejects
\* an offset that produces a degenerate box (min greater than max).
C26_ExpandRoundTrip ==
    /\ calc.op \in {"expand", "back"} => (~calc.raised /\ calc.ret # None)
    /\ calc.op = "back" => calc.ret = <<bboxes[1]>>

====
